---- MODULE Spec2Model ----
(***************************************************************************)
(* A model of full-moon's typed-Lua node layer (src/ast/types.rs): the     *)
(* TypeInfo family, the declaration/field structs with their constructors, *)
(* accessors and with_* builders, the derived Display rendering, the       *)
(* derived PartialEq, the derived Node span and the derived Visit walks.   *)
(* Text is a sequence of one-character strings, so rendering and parsing   *)
(* are computed, never assumed.                                            *)
(***************************************************************************)
EXTENDS Integers, Sequences, FiniteSets, TLC

VARIABLES node, prev, op, arg, src, steps, trace

vars == <<node, prev, op, arg, src, steps, trace>>

(***************************************************************************)
(* Bounds of the model.                                                    *)
(***************************************************************************)
\* Builder operations applied in a row to one node.
MaxOps == 2

(***************************************************************************)
(* Token layer (full-moon tokenizer.rs): characters, symbols,              *)
(* tokens with trivia and byte ranges.                                     *)
(***************************************************************************)
Whitespace == {" "}

Digits == {"0", "1", "2"}

Letters ==
    {"a", "b", "c", "d", "e", "f", "g", "h", "i", "j", "k", "l", "m", "n", "o", "p",
     "q", "r", "s", "t", "u", "v", "w", "x", "y", "z", "F", "M", "T", "U"}

\* The symbols of the token layer: Lua's keywords and punctuation, plus the
\* typed dialect's punctuation.  `type`, `export` and `typeof` are not
\* symbols: they are identifiers the parser recognises by their text.
SymbolTable ==
    {<<"+", "=">>, <<"-", "=">>, <<"*", "=">>, <<"/", "=">>, <<"%", "=">>,
     <<"^", "=">>, <<".", ".", "=">>,
     <<"&">>, <<"-", ">">>, <<":", ":">>, <<"|">>, <<"?">>,
     <<":">>, <<",">>, <<".", ".", ".">>, <<".", ".">>, <<".">>, <<"=">>,
     <<"<">>, <<">">>, <<"{">>, <<"}">>, <<"[">>, <<"]">>, <<"(">>, <<")">>,
     <<"+">>, <<"-">>, <<"*">>, <<"/">>, <<"%">>, <<"^">>,
     <<"n", "i", "l">>, <<"o", "r">>, <<"i", "n">>}

\* Position::default(), the position of a token that was not read from a source.
NoPosition == 0

\* TokenReference: leading trivia, the token (type, text, start and end byte),
\* trailing trivia.
TokenReference(leading, ttype, text, trailing, start, end) ==
    [tag |-> "TokenReference", leading |-> leading, ttype |-> ttype, text |-> text,
     trailing |-> trailing, start |-> start, end |-> end]

\* A failed Result.
Err == [tag |-> "Err"]

IsErr(r) == r.tag = "Err"

\* Option::None.
None == [tag |-> "None"]

IsNone(v) == v.tag = "None"

\* <TokenReference as Display>::fmt: leading trivia, token, trailing trivia.
RenderToken(t) == t.leading \o t.text \o t.trailing

RECURSIVE RunEnd(_, _, _)
\* The index after the run of characters of class C that starts at s[i].
RunEnd(s, i, C) ==
    IF i <= Len(s) /\ s[i] \in C THEN RunEnd(s, i + 1, C) ELSE i

RECURSIVE NonSpaceEnd(_, _)
NonSpaceEnd(s, i) ==
    IF i <= Len(s) /\ s[i] \notin Whitespace THEN NonSpaceEnd(s, i + 1) ELSE i

Slice(s, i, j) == IF j <= i THEN <<>> ELSE SubSeq(s, i, j - 1)

\* TokenReference::symbol: leading whitespace, a symbol, trailing whitespace,
\* and nothing else; Err when the text in between is not a symbol.
symbol(text) ==
    LET a == RunEnd(text, 1, Whitespace)
        b == NonSpaceEnd(text, a)
        c == RunEnd(text, b, Whitespace)
    IN  IF Slice(text, a, b) \notin SymbolTable \/ c <= Len(text)
        THEN Err
        ELSE TokenReference(Slice(text, 1, a), "Symbol", Slice(text, a, b),
                            Slice(text, b, c), NoPosition, NoPosition)

\* Token::new(TokenType::Identifier) wrapped with the given trivia.
IdentifierToken(leading, text, trailing) ==
    TokenReference(leading, "Identifier", text, trailing, NoPosition, NoPosition)

\* The length of the longest symbol that starts at s[i], 0 when there is none.
SymbolLen(s, i) ==
    IF i + 2 <= Len(s) /\ SubSeq(s, i, i + 2) \in SymbolTable THEN 3
    ELSE IF i + 1 <= Len(s) /\ SubSeq(s, i, i + 1) \in SymbolTable THEN 2
    ELSE IF i <= Len(s) /\ SubSeq(s, i, i) \in SymbolTable THEN 1
    ELSE 0

\* The index after the token that starts at s[i] (i itself when none does).
TokenEnd(s, i) ==
    IF s[i] \in Letters THEN RunEnd(s, i, Letters \cup Digits)
    ELSE IF s[i] \in Digits THEN RunEnd(s, i, Digits)
    ELSE i + SymbolLen(s, i)

TokenTypeOf(s, i, j) ==
    IF s[i] \in Digits THEN "Number"
    ELSE IF Slice(s, i, j) \in SymbolTable THEN "Symbol"
    ELSE "Identifier"

RECURSIVE Tokens(_, _, _)
\* The token references of s from index i on; `leading` is the trivia read
\* so far.  Whitespace after a token is its trailing trivia.
Tokens(s, i, leading) ==
    IF i > Len(s) THEN <<>>
    ELSE IF s[i] \in Whitespace
    THEN Tokens(s, RunEnd(s, i, Whitespace), Slice(s, i, RunEnd(s, i, Whitespace)))
    ELSE LET j == TokenEnd(s, i)
             k == RunEnd(s, j, Whitespace)
         IN  IF j = i THEN <<Err>>
             ELSE <<TokenReference(leading, TokenTypeOf(s, i, j), Slice(s, i, j),
                                   Slice(s, j, k), i - 1, j - 1)>>
                  \o Tokens(s, k, <<>>)

tokens(s) == Tokens(s, 1, <<>>)

(***************************************************************************)
(* Node shapes.  Every node is a record whose tag is the struct or the     *)
(* enum variant; the other fields are the declared fields.                 *)
(***************************************************************************)
\* ContainedSpan: the pair of tokens of a delimiter pair.
ContainedSpan(open, close) == [tag |-> "ContainedSpan", tokens |-> <<open, close>>]

\* punctuated::Pair: Pair::Punctuated(value, punctuation), or Pair::End(value)
\* when the punctuation is None.  A Punctuated is a sequence of pairs.
Pair(value, punctuation) == [tag |-> "Pair", value |-> value, punctuation |-> punctuation]

\* A Punctuated as a node of its own: its pairs.
Punctuated(pairs) == [tag |-> "Punctuated", pairs |-> pairs]

Array(braces, type_info) == [tag |-> "Array", braces |-> braces, type_info |-> type_info]

Basic(token) == [tag |-> "Basic", token |-> token]

Callback(parentheses, arguments, arrow, return_type) ==
    [tag |-> "Callback", parentheses |-> parentheses, arguments |-> arguments,
     arrow |-> arrow, return_type |-> return_type]

Generic(base, arrows, generics) ==
    [tag |-> "Generic", base |-> base, arrows |-> arrows, generics |-> generics]

Intersection(left, ampersand, right) ==
    [tag |-> "Intersection", left |-> left, ampersand |-> ampersand, right |-> right]

Module(module, punctuation, type_info) ==
    [tag |-> "Module", module |-> module, punctuation |-> punctuation,
     type_info |-> type_info]

Optional(base, question_mark) ==
    [tag |-> "Optional", base |-> base, question_mark |-> question_mark]

Table(braces, fields) == [tag |-> "Table", braces |-> braces, fields |-> fields]

Typeof(typeof_token, parentheses, inner) ==
    [tag |-> "Typeof", typeof_token |-> typeof_token, parentheses |-> parentheses,
     inner |-> inner]

Tuple(parentheses, types) ==
    [tag |-> "Tuple", parentheses |-> parentheses, types |-> types]

Union(left, pipe, right) == [tag |-> "Union", left |-> left, pipe |-> pipe, right |-> right]

Variadic(ellipse, type_info) ==
    [tag |-> "Variadic", ellipse |-> ellipse, type_info |-> type_info]

IndexedBasic(token) == [tag |-> "IndexedBasic", token |-> token]

IndexedGeneric(base, arrows, generics) ==
    [tag |-> "IndexedGeneric", base |-> base, arrows |-> arrows, generics |-> generics]

Name(token) == [tag |-> "Name", token |-> token]

IndexSignature(brackets, inner) ==
    [tag |-> "IndexSignature", brackets |-> brackets, inner |-> inner]

TypeField(key, colon, value) ==
    [tag |-> "TypeField", key |-> key, colon |-> colon, value |-> value]

TypeAssertion(assertion_op, cast_to) ==
    [tag |-> "TypeAssertion", assertion_op |-> assertion_op, cast_to |-> cast_to]

TypeDeclaration(type_token, base, generics, equal_token, declare_as) ==
    [tag |-> "TypeDeclaration", type_token |-> type_token, base |-> base,
     generics |-> generics, equal_token |-> equal_token, declare_as |-> declare_as]

GenericDeclaration(arrows, generics) ==
    [tag |-> "GenericDeclaration", arrows |-> arrows, generics |-> generics]

TypeSpecifier(punctuation, type_info) ==
    [tag |-> "TypeSpecifier", punctuation |-> punctuation, type_info |-> type_info]

ExportedTypeDeclaration(export_token, type_declaration) ==
    [tag |-> "ExportedTypeDeclaration", export_token |-> export_token,
     type_declaration |-> type_declaration]

\* make_op!(CompoundOp, ...): each variant holds the operator's token.
CompoundOpNames ==
    [PlusEqual |-> <<"+", "=">>, MinusEqual |-> <<"-", "=">>, StarEqual |-> <<"*", "=">>,
     SlashEqual |-> <<"/", "=">>, PercentEqual |-> <<"%", "=">>,
     CaretEqual |-> <<"^", "=">>, TwoDotsEqual |-> <<".", ".", "=">>]

CompoundOp(variant, token) == [tag |-> "CompoundOp", variant |-> variant, token |-> token]

CompoundAssignment(lhs, compound_operator, rhs) ==
    [tag |-> "CompoundAssignment", lhs |-> lhs, compound_operator |-> compound_operator,
     rhs |-> rhs]

\* The assignable target and the expression are nodes of ast/mod.rs; the
\* model keeps their one-token forms (a name, a number or a name).
Var(token) == [tag |-> "Var", token |-> token]

Expression(token) == [tag |-> "Expression", token |-> token]

(***************************************************************************)
(* Rendering: the derived Display of every node, from its display          *)
(* attribute.                                                              *)
(***************************************************************************)
RECURSIVE Display(_)
RECURSIVE DisplayPunctuated(_)

\* <Punctuated as Display>::fmt: each pair's value, then its punctuation.
DisplayPunctuated(p) ==
    IF p = <<>> THEN <<>>
    ELSE Display(Head(p).value) \o Display(Head(p).punctuation)
         \o DisplayPunctuated(Tail(p))

\* util::display_option: the value's rendering, nothing for None.
display_option(o) == IF IsNone(o) THEN <<>> ELSE Display(o)

DisplayTypeInfo(n) ==
    CASE n.tag = "Array" ->
            Display(n.braces.tokens[1]) \o Display(n.type_info)
            \o Display(n.braces.tokens[2])
      [] n.tag = "Basic" -> Display(n.token)
      [] n.tag = "Callback" ->
            Display(n.parentheses.tokens[1]) \o DisplayPunctuated(n.arguments)
            \o Display(n.parentheses.tokens[2]) \o Display(n.arrow)
            \o Display(n.return_type)
      [] n.tag = "Generic" ->
            Display(n.base) \o Display(n.arrows.tokens[1])
            \o DisplayPunctuated(n.generics) \o Display(n.arrows.tokens[2])
      [] n.tag = "Intersection" ->
            Display(n.left) \o Display(n.ampersand) \o Display(n.right)
      [] n.tag = "Module" ->
            Display(n.module) \o Display(n.punctuation) \o Display(n.type_info)
      [] n.tag = "Optional" -> Display(n.base) \o Display(n.question_mark)
      [] n.tag = "Table" ->
            Display(n.braces.tokens[1]) \o DisplayPunctuated(n.fields)
            \o Display(n.braces.tokens[2])
      [] n.tag = "Typeof" ->
            Display(n.typeof_token) \o Display(n.parentheses.tokens[1])
            \o Display(n.inner) \o Display(n.parentheses.tokens[2])
      [] n.tag = "Tuple" ->
            Display(n.parentheses.tokens[1]) \o DisplayPunctuated(n.types)
            \o Display(n.parentheses.tokens[2])
      [] n.tag = "Union" -> Display(n.left) \o Display(n.pipe) \o Display(n.right)
      [] n.tag = "Variadic" -> Display(n.ellipse) \o Display(n.type_info)

DisplayIndexedTypeInfo(n) ==
    CASE n.tag = "IndexedBasic" -> Display(n.token)
      [] n.tag = "IndexedGeneric" ->
            Display(n.base) \o Display(n.arrows.tokens[1])
            \o DisplayPunctuated(n.generics) \o Display(n.arrows.tokens[2])

DisplayTypeField(n) == Display(n.key) \o Display(n.colon) \o Display(n.value)

DisplayTypeFieldKey(n) ==
    CASE n.tag = "Name" -> Display(n.token)
      [] n.tag = "IndexSignature" ->
            Display(n.brackets.tokens[1]) \o Display(n.inner)
            \o Display(n.brackets.tokens[2])

DisplayTypeAssertion(n) == Display(n.assertion_op) \o Display(n.cast_to)

\* A slip: the generics are rendered after the `=` token.
Mutant_DisplayTypeDeclaration(n) ==
    Display(n.type_token) \o Display(n.base) \o Display(n.equal_token)
    \o display_option(n.generics) \o Display(n.declare_as)

DisplayTypeDeclaration(n) ==
    Display(n.type_token) \o Display(n.base) \o display_option(n.generics)
    \o Display(n.equal_token) \o Display(n.declare_as)

DisplayGenericDeclaration(n) ==
    Display(n.arrows.tokens[1]) \o DisplayPunctuated(n.generics)
    \o Display(n.arrows.tokens[2])

DisplayTypeSpecifier(n) == Display(n.punctuation) \o Display(n.type_info)

DisplayExportedTypeDeclaration(n) ==
    Display(n.export_token) \o Display(n.type_declaration)

\* A slip: the operator is rendered after the right-hand side.
Mutant_DisplayCompoundAssignment(n) ==
    Display(n.lhs) \o Display(n.rhs) \o Display(n.compound_operator)

DisplayCompoundAssignment(n) ==
    Display(n.lhs) \o Display(n.compound_operator) \o Display(n.rhs)

TypeInfoTags ==
    {"Array", "Basic", "Callback", "Generic", "Intersection", "Module", "Optional",
     "Table", "Typeof", "Tuple", "Union", "Variadic"}

IndexedTypeInfoTags == {"IndexedBasic", "IndexedGeneric"}

TypeFieldKeyTags == {"Name", "IndexSignature"}

\* to_string() of any node or token: dispatch on the node's type.
Display(n) ==
    CASE n.tag = "TokenReference" -> RenderToken(n)
      [] n.tag = "None" -> <<>>
      [] n.tag \in TypeInfoTags -> DisplayTypeInfo(n)
      [] n.tag \in IndexedTypeInfoTags -> DisplayIndexedTypeInfo(n)
      [] n.tag = "TypeField" -> DisplayTypeField(n)
      [] n.tag \in TypeFieldKeyTags -> DisplayTypeFieldKey(n)
      [] n.tag = "TypeAssertion" -> DisplayTypeAssertion(n)
      [] n.tag = "TypeDeclaration" -> DisplayTypeDeclaration(n)
      [] n.tag = "GenericDeclaration" -> DisplayGenericDeclaration(n)
      [] n.tag = "TypeSpecifier" -> DisplayTypeSpecifier(n)
      [] n.tag = "ExportedTypeDeclaration" -> DisplayExportedTypeDeclaration(n)
      [] n.tag = "CompoundAssignment" -> DisplayCompoundAssignment(n)
      [] n.tag \in {"CompoundOp", "Var", "Expression"} -> Display(n.token)

(***************************************************************************)
(* The parser (full-moon parsers.rs): recursive descent over the           *)
(* token references, building the nodes of the grammar.  A parse result is *)
(* [ok, node, next]: the node and the index of the first token left.       *)
(***************************************************************************)
Fail == [ok |-> FALSE]

Ok(n, i) == [ok |-> TRUE, node |-> n, next |-> i]

\* What follows a parse result: k of the result.
With(r, k(_)) == k(r)

\* What follows a parse result that is needed: Fail when it failed.
Then(r, k(_)) == IF r.ok THEN k(r) ELSE Fail

IsSymbolAt(toks, i, text) ==
    i <= Len(toks) /\ toks[i].ttype = "Symbol" /\ toks[i].text = text

IsIdentifierAt(toks, i) == i <= Len(toks) /\ toks[i].ttype = "Identifier"

IsKeywordAt(toks, i, text) == IsIdentifierAt(toks, i) /\ toks[i].text = text

IsNumberAt(toks, i) == i <= Len(toks) /\ toks[i].ttype = "Number"

RECURSIVE ParseTypeInfo(_, _)
RECURSIVE ParseTypeInfoList(_, _)
RECURSIVE ParseTypeFieldList(_, _)
RECURSIVE ParseNameList(_, _)

\* A pair put in front of the rest of a punctuated list.
Cons(pair, rest) == Ok(<<pair>> \o rest.node, rest.next)

\* Zero or more types separated by commas: a Punctuated<TypeInfo>.
ParseTypeInfoList(toks, i) ==
    With(ParseTypeInfo(toks, i), LAMBDA first :
        IF ~first.ok THEN Ok(<<>>, i)
        ELSE IF IsSymbolAt(toks, first.next, <<",">>)
        THEN Cons(Pair(first.node, toks[first.next]),
                  ParseTypeInfoList(toks, first.next + 1))
        ELSE Ok(<<Pair(first.node, None)>>, first.next))

\* Zero or more identifiers separated by commas: a Punctuated<TokenReference>.
ParseNameList(toks, i) ==
    IF ~IsIdentifierAt(toks, i) THEN Ok(<<>>, i)
    ELSE IF IsSymbolAt(toks, i + 1, <<",">>)
    THEN Cons(Pair(toks[i], toks[i + 1]), ParseNameList(toks, i + 2))
    ELSE Ok(<<Pair(toks[i], None)>>, i + 1)

\* The name of an indexed type, with its generics when a `<` follows.
ParseIndexedTypeInfo(toks, i) ==
    IF ~IsIdentifierAt(toks, i) THEN Fail
    ELSE IF IsSymbolAt(toks, i + 1, <<"<">>)
    THEN With(ParseTypeInfoList(toks, i + 2), LAMBDA list :
            IF IsSymbolAt(toks, list.next, <<">">>)
            THEN Ok(IndexedGeneric(toks[i], ContainedSpan(toks[i + 1], toks[list.next]),
                                   list.node), list.next + 1)
            ELSE Fail)
    ELSE Ok(IndexedBasic(toks[i]), i + 1)

ParseTypeFieldKey(toks, i) ==
    IF IsIdentifierAt(toks, i) THEN Ok(Name(toks[i]), i + 1)
    ELSE IF IsSymbolAt(toks, i, <<"[">>)
    THEN Then(ParseTypeInfo(toks, i + 1), LAMBDA inner :
            IF IsSymbolAt(toks, inner.next, <<"]">>)
            THEN Ok(IndexSignature(ContainedSpan(toks[i], toks[inner.next]), inner.node),
                    inner.next + 1)
            ELSE Fail)
    ELSE Fail

ParseTypeField(toks, i) ==
    Then(ParseTypeFieldKey(toks, i), LAMBDA key :
        IF IsSymbolAt(toks, key.next, <<":">>)
        THEN Then(ParseTypeInfo(toks, key.next + 1), LAMBDA value :
                Ok(TypeField(key.node, toks[key.next], value.node), value.next))
        ELSE Fail)

\* Zero or more fields separated by commas: a Punctuated<TypeField>.
ParseTypeFieldList(toks, i) ==
    With(ParseTypeField(toks, i), LAMBDA first :
        IF ~first.ok THEN Ok(<<>>, i)
        ELSE IF IsSymbolAt(toks, first.next, <<",">>)
        THEN Cons(Pair(first.node, toks[first.next]),
                  ParseTypeFieldList(toks, first.next + 1))
        ELSE Ok(<<Pair(first.node, None)>>, first.next))

\* A type in parentheses: a callback when `->` follows, a tuple otherwise.
ParseParentheses(toks, i) ==
    With(ParseTypeInfoList(toks, i + 1), LAMBDA list :
        IF ~IsSymbolAt(toks, list.next, <<")">>) THEN Fail
        ELSE IF IsSymbolAt(toks, list.next + 1, <<"-", ">">>)
        THEN Then(ParseTypeInfo(toks, list.next + 2), LAMBDA ret :
                Ok(Callback(ContainedSpan(toks[i], toks[list.next]), list.node,
                            toks[list.next + 1], ret.node), ret.next))
        ELSE Ok(Tuple(ContainedSpan(toks[i], toks[list.next]), list.node),
                list.next + 1))

\* A type in braces: a table of fields, or an array of one type.
ParseBraces(toks, i) ==
    With(ParseTypeFieldList(toks, i + 1), LAMBDA fields :
        IF IsSymbolAt(toks, fields.next, <<"}">>)
        THEN Ok(Table(ContainedSpan(toks[i], toks[fields.next]), fields.node),
                fields.next + 1)
        ELSE Then(ParseTypeInfo(toks, i + 1), LAMBDA element :
                IF IsSymbolAt(toks, element.next, <<"}">>)
                THEN Ok(Array(ContainedSpan(toks[i], toks[element.next]), element.node),
                        element.next + 1)
                ELSE Fail))

\* A type that starts with a name: typeof(...), module.Name, name<...>, name.
ParseNamed(toks, i) ==
    IF IsKeywordAt(toks, i, <<"t", "y", "p", "e", "o", "f">>) /\ IsSymbolAt(toks, i + 1, <<"(">>)
    THEN IF (IsIdentifierAt(toks, i + 2) \/ IsNumberAt(toks, i + 2))
            /\ IsSymbolAt(toks, i + 3, <<")">>)
         THEN Ok(Typeof(toks[i], ContainedSpan(toks[i + 1], toks[i + 3]),
                        Expression(toks[i + 2])), i + 4)
         ELSE Fail
    ELSE IF IsSymbolAt(toks, i + 1, <<".">>)
    THEN Then(ParseIndexedTypeInfo(toks, i + 2), LAMBDA inner :
            Ok(Module(toks[i], toks[i + 1], inner.node), inner.next))
    ELSE IF IsSymbolAt(toks, i + 1, <<"<">>)
    THEN With(ParseTypeInfoList(toks, i + 2), LAMBDA list :
            IF IsSymbolAt(toks, list.next, <<">">>)
            THEN Ok(Generic(toks[i], ContainedSpan(toks[i + 1], toks[list.next]),
                            list.node), list.next + 1)
            ELSE Fail)
    ELSE Ok(Basic(toks[i]), i + 1)

ParseBaseTypeInfo(toks, i) ==
    IF IsSymbolAt(toks, i, <<"(">>) THEN ParseParentheses(toks, i)
    ELSE IF IsSymbolAt(toks, i, <<"{">>) THEN ParseBraces(toks, i)
    ELSE IF IsSymbolAt(toks, i, <<".", ".", ".">>)
    THEN Then(ParseTypeInfo(toks, i + 1), LAMBDA inner :
            Ok(Variadic(toks[i], inner.node), inner.next))
    ELSE IF IsIdentifierAt(toks, i) THEN ParseNamed(toks, i)
    ELSE IF IsSymbolAt(toks, i, <<"n", "i", "l">>) THEN Ok(Basic(toks[i]), i + 1)
    ELSE Fail

\* One type without a binary operator, made optional by a following `?`.
ParseSingleTypeInfo(toks, i) ==
    Then(ParseBaseTypeInfo(toks, i), LAMBDA base :
        IF IsSymbolAt(toks, base.next, <<"?">>)
        THEN Ok(Optional(base.node, toks[base.next]), base.next + 1)
        ELSE base)

\* A type: a single type, then `|` or `&` and the type to its right.
ParseTypeInfo(toks, i) ==
    Then(ParseSingleTypeInfo(toks, i), LAMBDA left :
        IF IsSymbolAt(toks, left.next, <<"|">>)
        THEN Then(ParseTypeInfo(toks, left.next + 1), LAMBDA right :
                Ok(Union(left.node, toks[left.next], right.node), right.next))
        ELSE IF IsSymbolAt(toks, left.next, <<"&">>)
        THEN Then(ParseTypeInfo(toks, left.next + 1), LAMBDA right :
                Ok(Intersection(left.node, toks[left.next], right.node), right.next))
        ELSE left)

ParseGenericDeclaration(toks, i) ==
    IF ~IsSymbolAt(toks, i, <<"<">>) THEN Fail
    ELSE With(ParseNameList(toks, i + 1), LAMBDA names :
            IF IsSymbolAt(toks, names.next, <<">">>)
            THEN Ok(GenericDeclaration(ContainedSpan(toks[i], toks[names.next]),
                                       names.node), names.next + 1)
            ELSE Fail)

\* `type`, the name, the generics when a `<` follows, `=`, the definition.
ParseTypeDeclaration(toks, i) ==
    IF ~(IsKeywordAt(toks, i, <<"t", "y", "p", "e">>) /\ IsIdentifierAt(toks, i + 1))
    THEN Fail
    ELSE With(ParseGenericDeclaration(toks, i + 2), LAMBDA generics :
            With(IF generics.ok THEN generics.next ELSE i + 2, LAMBDA equal :
                IF ~IsSymbolAt(toks, equal, <<"=">>) THEN Fail
                ELSE Then(ParseTypeInfo(toks, equal + 1), LAMBDA def :
                        Ok(TypeDeclaration(toks[i], toks[i + 1],
                                           IF generics.ok THEN generics.node ELSE None,
                                           toks[equal], def.node), def.next))))

ParseExportedTypeDeclaration(toks, i) ==
    IF ~IsKeywordAt(toks, i, <<"e", "x", "p", "o", "r", "t">>) THEN Fail
    ELSE Then(ParseTypeDeclaration(toks, i + 1), LAMBDA decl :
            Ok(ExportedTypeDeclaration(toks[i], decl.node), decl.next))

ParseTypeSpecifier(toks, i) ==
    IF ~IsSymbolAt(toks, i, <<":">>) THEN Fail
    ELSE Then(ParseTypeInfo(toks, i + 1), LAMBDA t :
            Ok(TypeSpecifier(toks[i], t.node), t.next))

ParseTypeAssertion(toks, i) ==
    IF ~IsSymbolAt(toks, i, <<":", ":">>) THEN Fail
    ELSE Then(ParseTypeInfo(toks, i + 1), LAMBDA t :
            Ok(TypeAssertion(toks[i], t.node), t.next))

CompoundOpOf(text) ==
    CHOOSE v \in DOMAIN CompoundOpNames : CompoundOpNames[v] = text

ParseCompoundAssignment(toks, i) ==
    IF /\ IsIdentifierAt(toks, i)
       /\ i + 1 <= Len(toks)
       /\ toks[i + 1].ttype = "Symbol"
       /\ \E v \in DOMAIN CompoundOpNames : CompoundOpNames[v] = toks[i + 1].text
       /\ (IsIdentifierAt(toks, i + 2) \/ IsNumberAt(toks, i + 2))
    THEN Ok(CompoundAssignment(Var(toks[i]),
                               CompoundOp(CompoundOpOf(toks[i + 1].text), toks[i + 1]),
                               Expression(toks[i + 2])), i + 3)
    ELSE Fail

ParseKind(kind, toks) ==
    CASE kind = "TypeInfo" -> ParseTypeInfo(toks, 1)
      [] kind = "TypeField" -> ParseTypeField(toks, 1)
      [] kind = "TypeAssertion" -> ParseTypeAssertion(toks, 1)
      [] kind = "TypeDeclaration" -> ParseTypeDeclaration(toks, 1)
      [] kind = "GenericDeclaration" -> ParseGenericDeclaration(toks, 1)
      [] kind = "TypeSpecifier" -> ParseTypeSpecifier(toks, 1)
      [] kind = "ExportedTypeDeclaration" -> ParseExportedTypeDeclaration(toks, 1)
      [] kind = "CompoundAssignment" -> ParseCompoundAssignment(toks, 1)

\* The tree of the source text, Err when it does not parse as a whole.
Whole(toks, r) == IF r.ok /\ r.next = Len(toks) + 1 THEN r.node ELSE Err

ParseTokens(kind, toks) ==
    IF \E k \in 1..Len(toks) : IsErr(toks[k]) THEN Err
    ELSE Whole(toks, ParseKind(kind, toks))

parse(kind, text) == ParseTokens(kind, tokens(text))

\* The source texts the model parses.
Sources ==
    {[kind |-> "TypeInfo",
      text |-> <<"{", " ", "f", "o", "o", ":", " ", "n", "u", "m", "b", "e", "r", ",", " ", "b", "a", "r", ":", " ", "s", "t", "r", "i", "n", "g", " ", "}">>],
     [kind |-> "TypeInfo",
      text |-> <<"(", "s", "t", "r", "i", "n", "g", ",", " ", "n", "u", "m", "b", "e", "r", ")", " ", "-", ">", " ", "b", "o", "o", "l", "e", "a", "n">>],
     [kind |-> "TypeInfo",
      text |-> <<"s", "t", "r", "i", "n", "g", " ", "|", " ", "n", "u", "m", "b", "e", "r">>],
     [kind |-> "TypeInfo",
      text |-> <<"s", "t", "r", "i", "n", "g", "|", "n", "u", "m", "b", "e", "r">>],
     [kind |-> "TypeInfo",
      text |-> <<"{", " ", "n", "u", "m", "b", "e", "r", " ", "}">>],
     [kind |-> "TypeInfo",
      text |-> <<"m", "a", "p", "<", "n", "u", "m", "b", "e", "r", ",", " ", "s", "t", "r", "i", "n", "g", ">">>],
     [kind |-> "TypeInfo",
      text |-> <<"a", " ", "&", " ", "b">>],
     [kind |-> "TypeInfo",
      text |-> <<"m", "o", "d", "u", "l", "e", ".", "F", "o", "o">>],
     [kind |-> "TypeInfo",
      text |-> <<"m", "o", "d", "u", "l", "e", ".", "F", "o", "o", "<", "T", ">", "?">>],
     [kind |-> "TypeInfo",
      text |-> <<"s", "t", "r", "i", "n", "g", "?">>],
     [kind |-> "TypeInfo",
      text |-> <<"t", "y", "p", "e", "o", "f", "(", "f", "o", "o", ")">>],
     [kind |-> "TypeInfo",
      text |-> <<"(", "s", "t", "r", "i", "n", "g", ",", " ", "n", "u", "m", "b", "e", "r", ")">>],
     [kind |-> "TypeInfo",
      text |-> <<".", ".", ".", "n", "u", "m", "b", "e", "r">>],
     [kind |-> "TypeInfo",
      text |-> <<"{", " ", "[", "n", "u", "m", "b", "e", "r", "]", ":", " ", "s", "t", "r", "i", "n", "g", " ", "}">>],
     [kind |-> "TypeInfo",
      text |-> <<" ", "n", "u", "m", "b", "e", "r">>],
     [kind |-> "TypeInfo",
      text |-> <<"a", " ", "|", " ", "b", " ", "|", " ", "c">>],
     [kind |-> "TypeField",
      text |-> <<"f", "o", "o", ":", " ", "n", "u", "m", "b", "e", "r">>],
     [kind |-> "TypeAssertion",
      text |-> <<":", ":", " ", "n", "u", "m", "b", "e", "r">>],
     [kind |-> "TypeDeclaration",
      text |-> <<"t", "y", "p", "e", " ", "M", "e", "t", "e", "r", "s", " ", "=", " ", "n", "u", "m", "b", "e", "r">>],
     [kind |-> "TypeDeclaration",
      text |-> <<"t", "y", "p", "e", " ", "F", "o", "o", "<", "T", ",", " ", "U", ">", " ", "=", " ", "T">>],
     [kind |-> "GenericDeclaration",
      text |-> <<"<", "T", ",", " ", "U", ">">>],
     [kind |-> "GenericDeclaration",
      text |-> <<"<", ">">>],
     [kind |-> "TypeSpecifier",
      text |-> <<":", " ", "n", "u", "m", "b", "e", "r">>],
     [kind |-> "ExportedTypeDeclaration",
      text |-> <<"e", "x", "p", "o", "r", "t", " ", "t", "y", "p", "e", " ", "M", "e", "t", "e", "r", "s", " ", "=", " ", "n", "u", "m", "b", "e", "r">>],
     [kind |-> "CompoundAssignment",
      text |-> <<"x", " ", "+", "=", " ", "1">>],
     [kind |-> "CompoundAssignment",
      text |-> <<"x", " ", ".", ".", "=", " ", "y">>]}

Parsed(kind) == {parse(s.kind, s.text) : s \in {x \in Sources : x.kind = kind}} \ {Err}

(***************************************************************************)
(* Constructors, accessors and builders of src/ast/types.rs.               *)
(***************************************************************************)
\* What a constructor leaves when an unwrap() of an Err panics: no node.
Panic == [tag |-> "Panic"]

IsPanic(n) == n.tag = "Panic"

TypeField_new(key, value) ==
    LET colon == symbol(<<":", " ">>)
    IN  IF IsErr(colon) THEN Panic ELSE TypeField(key, colon, value)

TypeField_key(self) == self.key

TypeField_colon_token(self) == self.colon

TypeField_value(self) == self.value

TypeField_with_key(self, key) == [self EXCEPT !.key = key]

TypeField_with_colon_token(self, colon_token) == [self EXCEPT !.colon = colon_token]

TypeField_with_value(self, value) == [self EXCEPT !.value = value]

TypeAssertion_new(cast_to) ==
    LET assertion_op == symbol(<<":", ":">>)
    IN  IF IsErr(assertion_op) THEN Panic ELSE TypeAssertion(assertion_op, cast_to)

TypeAssertion_assertion_op(self) == self.assertion_op

TypeAssertion_cast_to(self) == self.cast_to

TypeAssertion_with_assertion_op(self, assertion_op) ==
    [self EXCEPT !.assertion_op = assertion_op]

TypeAssertion_with_cast_to(self, cast_to) == [self EXCEPT !.cast_to = cast_to]

\* A slip: the failed synthesis is handed back to the caller instead of unwrapped.
Mutant_TypeDeclaration_new(type_name, type_definition) ==
    LET type_token == symbol(<<"t", "y", "p", "e", " ">>)
        equal_token == symbol(<<" ", "=", " ">>)
    IN  IF IsErr(type_token) \/ IsErr(equal_token) THEN Err
        ELSE TypeDeclaration(type_token, type_name, None, equal_token, type_definition)

TypeDeclaration_new(type_name, type_definition) ==
    LET type_token == symbol(<<"t", "y", "p", "e", " ">>)
        equal_token == symbol(<<" ", "=", " ">>)
    IN  IF IsErr(type_token) \/ IsErr(equal_token) THEN Panic
        ELSE TypeDeclaration(type_token, type_name, None, equal_token, type_definition)

TypeDeclaration_type_token(self) == self.type_token

TypeDeclaration_type_name(self) == self.base

TypeDeclaration_generics(self) == self.generics

TypeDeclaration_equal_token(self) == self.equal_token

TypeDeclaration_type_definition(self) == self.declare_as

TypeDeclaration_with_type_token(self, type_token) ==
    [self EXCEPT !.type_token = type_token]

\* A slip: the name is stored in the field of the `type` token.
Mutant_with_type_name(self, type_name) == [self EXCEPT !.type_token = type_name]

TypeDeclaration_with_type_name(self, type_name) == [self EXCEPT !.base = type_name]

\* A slip: the `=` token is rebuilt without its trivia.
Mutant_with_generics(self, generics) ==
    [self EXCEPT !.generics = generics, !.equal_token = symbol(<<"=">>)]

TypeDeclaration_with_generics(self, generics) == [self EXCEPT !.generics = generics]

\* A slip: the declaration is rebuilt without its generics.
Mutant_with_equal_token(self, equal_token) ==
    [self EXCEPT !.equal_token = equal_token, !.generics = None]

TypeDeclaration_with_equal_token(self, equal_token) ==
    [self EXCEPT !.equal_token = equal_token]

TypeDeclaration_with_type_definition(self, type_definition) ==
    [self EXCEPT !.declare_as = type_definition]

GenericDeclaration_new ==
    LET open == symbol(<<"<">>)
        close == symbol(<<">">>)
    IN  IF IsErr(open) \/ IsErr(close) THEN Panic
        ELSE GenericDeclaration(ContainedSpan(open, close), <<>>)

GenericDeclaration_arrows(self) == self.arrows

GenericDeclaration_generics(self) == self.generics

GenericDeclaration_with_arrows(self, arrows) == [self EXCEPT !.arrows = arrows]

GenericDeclaration_with_generics(self, generics) == [self EXCEPT !.generics = generics]

TypeSpecifier_new(type_info) ==
    LET punctuation == symbol(<<":", " ">>)
    IN  IF IsErr(punctuation) THEN Panic ELSE TypeSpecifier(punctuation, type_info)

TypeSpecifier_punctuation(self) == self.punctuation

TypeSpecifier_type_info(self) == self.type_info

TypeSpecifier_with_punctuation(self, punctuation) ==
    [self EXCEPT !.punctuation = punctuation]

TypeSpecifier_with_type_info(self, type_info) == [self EXCEPT !.type_info = type_info]

ExportedTypeDeclaration_new(type_declaration) ==
    ExportedTypeDeclaration(
        IdentifierToken(<<>>, <<"e", "x", "p", "o", "r", "t">>, <<" ">>), type_declaration)

ExportedTypeDeclaration_export_token(self) == self.export_token

ExportedTypeDeclaration_type_declaration(self) == self.type_declaration

ExportedTypeDeclaration_with_export_token(self, export_token) ==
    [self EXCEPT !.export_token = export_token]

ExportedTypeDeclaration_with_type_declaration(self, type_declaration) ==
    [self EXCEPT !.type_declaration = type_declaration]

CompoundAssignment_new(lhs, compound_operator, rhs) ==
    CompoundAssignment(lhs, compound_operator, rhs)

CompoundAssignment_lhs(self) == self.lhs

CompoundAssignment_compound_operator(self) == self.compound_operator

CompoundAssignment_rhs(self) == self.rhs

CompoundAssignment_with_lhs(self, lhs) == [self EXCEPT !.lhs = lhs]

CompoundAssignment_with_compound_operator(self, compound_operator) ==
    [self EXCEPT !.compound_operator = compound_operator]

CompoundAssignment_with_rhs(self, rhs) == [self EXCEPT !.rhs = rhs]

(***************************************************************************)
(* The values the client hands to constructors and builders.               *)
(***************************************************************************)
TokenPool ==
    {IdentifierToken(<<>>, <<"T">>, <<>>), IdentifierToken(<<" ">>, <<"U">>, <<" ">>)}

TypeInfoPool ==
    {parse("TypeInfo", x) :
        x \in {<<"n", "u", "m", "b", "e", "r">>, <<"s", "t", "r", "i", "n", "g", "?">>,
               <<"{", " ", "n", "u", "m", "b", "e", "r", " ", "}">>, <<"m", "o", "d", "u", "l", "e", ".", "F", "o", "o">>}}

TypeFieldKeyPool ==
    {Name(IdentifierToken(<<>>, <<"k">>, <<>>)),
     parse("TypeField", <<"[", "n", "u", "m", "b", "e", "r", "]", ":", " ", "s", "t", "r", "i", "n", "g">>).key}

\* Punctuated<TokenReference> values: nothing, `T`, `T, U`.
NamesPool ==
    {<<>>,
     <<Pair(IdentifierToken(<<>>, <<"T">>, <<>>), None)>>,
     <<Pair(IdentifierToken(<<>>, <<"T">>, <<>>), symbol(<<",", " ">>)),
       Pair(IdentifierToken(<<>>, <<"U">>, <<>>), None)>>}

ContainedSpanPool ==
    {ContainedSpan(symbol(<<"<", " ">>), symbol(<<" ", ">">>)),
     ContainedSpan(symbol(<<"(">>), symbol(<<")">>))}

GenericsPool == {None} \cup Parsed("GenericDeclaration")

TypeDeclarationPool == Parsed("TypeDeclaration")

VarPool == {Var(IdentifierToken(<<>>, <<"y">>, <<" ">>))}

ExpressionPool == {Expression(IdentifierToken(<<>>, <<"z">>, <<>>))}

CompoundOpPool ==
    {CompoundOp("MinusEqual", symbol(<<"-", "=", " ">>)),
     CompoundOp("TwoDotsEqual", symbol(<<".", ".", "=">>))}

(***************************************************************************)
(* Operations of the client: parse a source text, construct a node, apply  *)
(* a builder to the node it holds.                                         *)
(***************************************************************************)
Fresh == op = "init"

Construct(name, n, a) ==
    /\ Fresh
    /\ node' = n
    /\ prev' = None
    /\ op' = name
    /\ arg' = a
    /\ src' = <<>>
    /\ steps' = 0
    /\ trace' = <<>>

Build(name, n, a) ==
    /\ steps < MaxOps
    /\ node' = n
    /\ prev' = node
    /\ op' = name
    /\ arg' = <<a>>
    /\ steps' = steps + 1
    /\ trace' = <<>>
    /\ UNCHANGED src

Parse ==
    /\ Fresh
    /\ \E s \in Sources :
          /\ node' = parse(s.kind, s.text)
          /\ src' = s.text
    /\ prev' = None
    /\ op' = "parse"
    /\ arg' = <<>>
    /\ steps' = 0
    /\ trace' = <<>>

NewTypeField ==
    \E k \in TypeFieldKeyPool, v \in TypeInfoPool :
        Construct("TypeField::new", TypeField_new(k, v), <<k, v>>)

NewTypeAssertion ==
    \E v \in TypeInfoPool : Construct("TypeAssertion::new", TypeAssertion_new(v), <<v>>)

NewTypeDeclaration ==
    \E k \in TokenPool, v \in TypeInfoPool :
        Construct("TypeDeclaration::new", TypeDeclaration_new(k, v), <<k, v>>)

NewGenericDeclaration ==
    Construct("GenericDeclaration::new", GenericDeclaration_new, <<>>)

NewTypeSpecifier ==
    \E v \in TypeInfoPool : Construct("TypeSpecifier::new", TypeSpecifier_new(v), <<v>>)

NewExportedTypeDeclaration ==
    \E d \in TypeDeclarationPool :
        Construct("ExportedTypeDeclaration::new", ExportedTypeDeclaration_new(d), <<d>>)

NewCompoundAssignment ==
    \E l \in VarPool, o \in CompoundOpPool, r \in ExpressionPool :
        Construct("CompoundAssignment::new", CompoundAssignment_new(l, o, r), <<l, o, r>>)

WithKey ==
    /\ node.tag = "TypeField"
    /\ \E v \in TypeFieldKeyPool : Build("TypeField::with_key", TypeField_with_key(node, v), v)

WithColonToken ==
    /\ node.tag = "TypeField"
    /\ \E v \in TokenPool :
          Build("TypeField::with_colon_token", TypeField_with_colon_token(node, v), v)

WithValue ==
    /\ node.tag = "TypeField"
    /\ \E v \in TypeInfoPool :
          Build("TypeField::with_value", TypeField_with_value(node, v), v)

WithAssertionOp ==
    /\ node.tag = "TypeAssertion"
    /\ \E v \in TokenPool :
          Build("TypeAssertion::with_assertion_op",
                TypeAssertion_with_assertion_op(node, v), v)

WithCastTo ==
    /\ node.tag = "TypeAssertion"
    /\ \E v \in TypeInfoPool :
          Build("TypeAssertion::with_cast_to", TypeAssertion_with_cast_to(node, v), v)

WithTypeToken ==
    /\ node.tag = "TypeDeclaration"
    /\ \E v \in TokenPool :
          Build("TypeDeclaration::with_type_token",
                TypeDeclaration_with_type_token(node, v), v)

WithTypeName ==
    /\ node.tag = "TypeDeclaration"
    /\ \E v \in TokenPool :
          Build("TypeDeclaration::with_type_name",
                TypeDeclaration_with_type_name(node, v), v)

WithGenericsOption ==
    /\ node.tag = "TypeDeclaration"
    /\ \E v \in GenericsPool :
          Build("TypeDeclaration::with_generics", TypeDeclaration_with_generics(node, v), v)

WithEqualToken ==
    /\ node.tag = "TypeDeclaration"
    /\ \E v \in TokenPool :
          Build("TypeDeclaration::with_equal_token",
                TypeDeclaration_with_equal_token(node, v), v)

WithTypeDefinition ==
    /\ node.tag = "TypeDeclaration"
    /\ \E v \in TypeInfoPool :
          Build("TypeDeclaration::with_type_definition",
                TypeDeclaration_with_type_definition(node, v), v)

WithArrows ==
    /\ node.tag = "GenericDeclaration"
    /\ \E v \in ContainedSpanPool :
          Build("GenericDeclaration::with_arrows", GenericDeclaration_with_arrows(node, v), v)

WithGenericNames ==
    /\ node.tag = "GenericDeclaration"
    /\ \E v \in NamesPool :
          Build("GenericDeclaration::with_generics",
                GenericDeclaration_with_generics(node, v), Punctuated(v))

WithPunctuation ==
    /\ node.tag = "TypeSpecifier"
    /\ \E v \in TokenPool :
          Build("TypeSpecifier::with_punctuation", TypeSpecifier_with_punctuation(node, v), v)

WithTypeInfo ==
    /\ node.tag = "TypeSpecifier"
    /\ \E v \in TypeInfoPool :
          Build("TypeSpecifier::with_type_info", TypeSpecifier_with_type_info(node, v), v)

WithExportToken ==
    /\ node.tag = "ExportedTypeDeclaration"
    /\ \E v \in TokenPool :
          Build("ExportedTypeDeclaration::with_export_token",
                ExportedTypeDeclaration_with_export_token(node, v), v)

WithTypeDeclaration ==
    /\ node.tag = "ExportedTypeDeclaration"
    /\ \E v \in TypeDeclarationPool :
          Build("ExportedTypeDeclaration::with_type_declaration",
                ExportedTypeDeclaration_with_type_declaration(node, v), v)

WithLhs ==
    /\ node.tag = "CompoundAssignment"
    /\ \E v \in VarPool :
          Build("CompoundAssignment::with_lhs", CompoundAssignment_with_lhs(node, v), v)

WithCompoundOperator ==
    /\ node.tag = "CompoundAssignment"
    /\ \E v \in CompoundOpPool :
          Build("CompoundAssignment::with_compound_operator",
                CompoundAssignment_with_compound_operator(node, v), v)

WithRhs ==
    /\ node.tag = "CompoundAssignment"
    /\ \E v \in ExpressionPool :
          Build("CompoundAssignment::with_rhs", CompoundAssignment_with_rhs(node, v), v)

(***************************************************************************)
(* The fields of a node in declaration order (the struct and variant       *)
(* declarations), which the derived traits walk.                           *)
(***************************************************************************)
Fields(n) ==
    CASE n.tag = "Array" -> <<n.braces, n.type_info>>
      [] n.tag = "Basic" -> <<n.token>>
      [] n.tag = "Callback" ->
            <<n.parentheses, Punctuated(n.arguments), n.arrow, n.return_type>>
      [] n.tag = "Generic" -> <<n.base, n.arrows, Punctuated(n.generics)>>
      [] n.tag = "Intersection" -> <<n.left, n.ampersand, n.right>>
      [] n.tag = "Module" -> <<n.module, n.punctuation, n.type_info>>
      [] n.tag = "Optional" -> <<n.base, n.question_mark>>
      [] n.tag = "Table" -> <<n.braces, Punctuated(n.fields)>>
      [] n.tag = "Typeof" -> <<n.typeof_token, n.parentheses, n.inner>>
      [] n.tag = "Tuple" -> <<n.parentheses, Punctuated(n.types)>>
      [] n.tag = "Union" -> <<n.left, n.pipe, n.right>>
      [] n.tag = "Variadic" -> <<n.ellipse, n.type_info>>
      [] n.tag = "IndexedBasic" -> <<n.token>>
      [] n.tag = "IndexedGeneric" -> <<n.base, n.arrows, Punctuated(n.generics)>>
      [] n.tag = "TypeField" -> <<n.key, n.colon, n.value>>
      [] n.tag = "Name" -> <<n.token>>
      [] n.tag = "IndexSignature" -> <<n.brackets, n.inner>>
      [] n.tag = "TypeAssertion" -> <<n.assertion_op, n.cast_to>>
      [] n.tag = "TypeDeclaration" ->
            <<n.type_token, n.base, n.generics, n.equal_token, n.declare_as>>
      [] n.tag = "GenericDeclaration" -> <<n.arrows, Punctuated(n.generics)>>
      [] n.tag = "TypeSpecifier" -> <<n.punctuation, n.type_info>>
      [] n.tag = "ExportedTypeDeclaration" -> <<n.export_token, n.type_declaration>>
      [] n.tag = "CompoundAssignment" -> <<n.lhs, n.compound_operator, n.rhs>>
      [] n.tag \in {"CompoundOp", "Var", "Expression"} -> <<n.token>>
      [] n.tag = "ContainedSpan" -> n.tokens
      [] n.tag = "Punctuated" -> n.pairs
      [] n.tag = "Pair" -> <<n.value, n.punctuation>>
      [] n.tag \in {"TokenReference", "None"} -> <<>>

Range(s) == {s[i] : i \in DOMAIN s}

RECURSIVE Subnodes(_)
\* The node, and every node, delimiter pair, list, pair and token within it.
Subnodes(n) == {n} \cup UNION {Subnodes(c) : c \in Range(Fields(n))}

RECURSIVE TokenBytes(_)
RECURSIVE TokenBytesOf(_)
\* The bytes of the leaf tokens of a node, trivia included.
TokenBytes(n) ==
    IF n.tag = "TokenReference" THEN Len(RenderToken(n)) ELSE TokenBytesOf(Fields(n))

TokenBytesOf(s) == IF s = <<>> THEN 0 ELSE TokenBytes(Head(s)) + TokenBytesOf(Tail(s))

IsNode(n) == n.tag \notin {"None", "Panic", "Err"}

(***************************************************************************)
(* derive(PartialEq): two values are equal when they are of the same       *)
(* variant or struct and their fields are equal, one by one.               *)
(***************************************************************************)
\* Equality of token references: the leading trivia, the text of the token
\* and the trailing trivia.  Where the token lies in a source is not
\* compared: a tree is equal to the tree parsed from its rendering.
TokenReference_eq(a, b) ==
    /\ a.leading = b.leading
    /\ a.text = b.text
    /\ a.trailing = b.trailing

\* A slip: only the variant or struct is compared.
Mutant_eq(a, b) == a.tag = b.tag

RECURSIVE eq(_, _)
RECURSIVE eq_fields(_, _)
eq(a, b) ==
    IF a.tag # b.tag THEN FALSE
    ELSE IF a.tag = "TokenReference" THEN TokenReference_eq(a, b)
    ELSE IF a.tag = "CompoundOp" THEN a.variant = b.variant /\ eq(a.token, b.token)
    ELSE eq_fields(Fields(a), Fields(b))

eq_fields(s, u) == Len(s) = Len(u) /\ \A i \in DOMAIN s : eq(s[i], u[i])

(***************************************************************************)
(* The declared types of the fields: what a value must be to be stored in  *)
(* a field of that type.                                                   *)
(***************************************************************************)
IsTokenReference(t) == t.tag = "TokenReference"

IsContainedSpan(c) ==
    c.tag = "ContainedSpan" /\ \A i \in DOMAIN c.tokens : IsTokenReference(c.tokens[i])

\* Punctuated<T>: pairs of a T and, but for a last one, a punctuation token.
IsPunctuated(p, IsT(_)) ==
    \A i \in DOMAIN p :
        /\ p[i].tag = "Pair"
        /\ IsT(p[i].value)
        /\ IsNone(p[i].punctuation) \/ IsTokenReference(p[i].punctuation)

RECURSIVE IsTypeInfo(_)
RECURSIVE IsIndexedTypeInfo(_)
RECURSIVE IsTypeField(_)
RECURSIVE IsTypeFieldKey(_)

\* A slip: the slot of Module is declared as a TypeInfo.
Mutant_IsIndexedTypeInfo(n) == n.tag \in TypeInfoTags \cup IndexedTypeInfoTags

IsIndexedTypeInfo(n) ==
    CASE n.tag = "IndexedBasic" -> IsTokenReference(n.token)
      [] n.tag = "IndexedGeneric" ->
            /\ IsTokenReference(n.base)
            /\ IsContainedSpan(n.arrows)
            /\ IsPunctuated(n.generics, IsTypeInfo)
      [] OTHER -> FALSE

IsTypeInfo(n) ==
    CASE n.tag = "Array" -> IsContainedSpan(n.braces) /\ IsTypeInfo(n.type_info)
      [] n.tag = "Basic" -> IsTokenReference(n.token)
      [] n.tag = "Callback" ->
            /\ IsContainedSpan(n.parentheses)
            /\ IsPunctuated(n.arguments, IsTypeInfo)
            /\ IsTokenReference(n.arrow)
            /\ IsTypeInfo(n.return_type)
      [] n.tag = "Generic" ->
            /\ IsTokenReference(n.base)
            /\ IsContainedSpan(n.arrows)
            /\ IsPunctuated(n.generics, IsTypeInfo)
      [] n.tag = "Intersection" ->
            IsTypeInfo(n.left) /\ IsTokenReference(n.ampersand) /\ IsTypeInfo(n.right)
      [] n.tag = "Module" ->
            /\ IsTokenReference(n.module)
            /\ IsTokenReference(n.punctuation)
            /\ IsIndexedTypeInfo(n.type_info)
      [] n.tag = "Optional" -> IsTypeInfo(n.base) /\ IsTokenReference(n.question_mark)
      [] n.tag = "Table" ->
            IsContainedSpan(n.braces) /\ IsPunctuated(n.fields, IsTypeField)
      [] n.tag = "Typeof" ->
            /\ IsTokenReference(n.typeof_token)
            /\ IsContainedSpan(n.parentheses)
            /\ n.inner.tag = "Expression"
      [] n.tag = "Tuple" ->
            IsContainedSpan(n.parentheses) /\ IsPunctuated(n.types, IsTypeInfo)
      [] n.tag = "Union" ->
            IsTypeInfo(n.left) /\ IsTokenReference(n.pipe) /\ IsTypeInfo(n.right)
      [] n.tag = "Variadic" -> IsTokenReference(n.ellipse) /\ IsTypeInfo(n.type_info)
      [] OTHER -> FALSE

IsTypeField(n) ==
    /\ n.tag = "TypeField"
    /\ IsTypeFieldKey(n.key)
    /\ IsTokenReference(n.colon)
    /\ IsTypeInfo(n.value)

IsTypeFieldKey(n) ==
    CASE n.tag = "Name" -> IsTokenReference(n.token)
      [] n.tag = "IndexSignature" -> IsContainedSpan(n.brackets) /\ IsTypeInfo(n.inner)
      [] OTHER -> FALSE

(***************************************************************************)
(* derive(Node): the start position of a node is that of the first of its  *)
(* fields, in declaration order, that has one; the end position is that of *)
(* the last of its fields that has one.                                    *)
(***************************************************************************)
\* Option::Some.
Some(v) == [tag |-> "Some", value |-> v]

\* Option::or_else.
or_else(a, b) == IF IsNone(a) THEN b ELSE a

RECURSIVE start_position(_)
RECURSIVE first_start(_)
RECURSIVE end_position(_)
RECURSIVE last_end(_)

start_position(n) ==
    CASE n.tag = "TokenReference" -> Some(n.start)
      [] n.tag = "None" -> None
      [] n.tag = "ContainedSpan" -> start_position(n.tokens[1])
      [] n.tag = "Punctuated" ->
            IF n.pairs = <<>> THEN None ELSE start_position(n.pairs[1])
      [] n.tag = "Pair" -> start_position(n.value)
      [] OTHER -> first_start(Fields(n))

first_start(s) ==
    IF s = <<>> THEN None ELSE or_else(start_position(Head(s)), first_start(Tail(s)))

end_position(n) ==
    CASE n.tag = "TokenReference" -> Some(n.end)
      [] n.tag = "None" -> None
      [] n.tag = "ContainedSpan" -> end_position(n.tokens[2])
      [] n.tag = "Punctuated" ->
            IF n.pairs = <<>> THEN None ELSE end_position(n.pairs[Len(n.pairs)])
      [] n.tag = "Pair" -> or_else(end_position(n.punctuation), end_position(n.value))
      [] OTHER -> last_end(Fields(n))

last_end(s) ==
    IF s = <<>> THEN None
    ELSE or_else(end_position(s[Len(s)]), last_end(SubSeq(s, 1, Len(s) - 1)))

(***************************************************************************)
(* derive(Visit): the visitor's hook of the node, the fields in            *)
(* declaration order, the visitor's end hook of the node.  A mutating      *)
(* visitor returns the node that takes the place of the one it is given.   *)
(***************************************************************************)
\* A call of a hook of the visitor with a node.
Event(hook, end, n) == [hook |-> hook, end |-> end, node |-> n]

\* The hook of the visitor for a node.
Hook(n) ==
    CASE n.tag \in TypeInfoTags -> "visit_type_info"
      [] n.tag \in IndexedTypeInfoTags -> "visit_indexed_type_info"
      [] n.tag \in TypeFieldKeyTags -> "visit_type_field_key"
      [] n.tag = "TypeField" -> "visit_type_field"
      [] n.tag = "TypeAssertion" -> "visit_type_assertion"
      [] n.tag = "TypeDeclaration" -> "visit_type_declaration"
      [] n.tag = "GenericDeclaration" -> "visit_generic_declaration"
      [] n.tag = "TypeSpecifier" -> "visit_type_specifier"
      [] n.tag = "ExportedTypeDeclaration" -> "visit_exported_type_declaration"
      [] n.tag = "CompoundAssignment" -> "visit_compound_assignment"
      [] n.tag = "CompoundOp" -> "visit_compound_op"
      [] n.tag = "Var" -> "visit_var"
      [] n.tag = "Expression" -> "visit_expression"

\* A slip: the attribute on the arrows is missing.
Mutant_VisitContains(n) == FALSE

\* #[visit(contains = "generics")]: the field after the delimiter pair is
\* visited between its two tokens.
VisitContains(n) == n.tag = "GenericDeclaration"

\* The hand-written walks of the enums visit what a delimiter pair encloses
\* between its two tokens as well.
ContainsNext(n) ==
    \/ VisitContains(n)
    \/ n.tag \in {"Array", "Callback", "Generic", "Table", "Typeof", "Tuple",
                  "IndexedGeneric", "IndexSignature"}

SpanIndex(s) == CHOOSE k \in DOMAIN s : s[k].tag = "ContainedSpan"

\* The fields of s with the field after the delimiter pair moved between
\* the two tokens of the pair.
Contained(s, k) ==
    SubSeq(s, 1, k - 1) \o <<s[k].tokens[1], s[k + 1], s[k].tokens[2]>>
    \o SubSeq(s, k + 2, Len(s))

\* What is visited within a node, in the order of the visit.
VisitOrder(n) ==
    IF ContainsNext(n) THEN Contained(Fields(n), SpanIndex(Fields(n))) ELSE Fields(n)

\* A trivia token or the token of a token reference, as the visitor sees it.
Token(text) == [tag |-> "Token", text |-> text]

Trivia(text) == IF text = <<>> THEN <<>> ELSE <<Event("visit_token", FALSE, Token(text))>>

\* The walk of a token reference: leading trivia, the token, trailing trivia.
VisitTokenReference(t) ==
    Trivia(t.leading) \o <<Event("visit_token", FALSE, Token(t.text))>>
    \o Trivia(t.trailing)

RECURSIVE Visit(_)
RECURSIVE VisitAll(_)
\* node.visit(visitor): the calls of the visitor's hooks, in order.
Visit(n) ==
    CASE n.tag = "TokenReference" -> VisitTokenReference(n)
      [] n.tag = "None" -> <<>>
      [] n.tag \in {"ContainedSpan", "Punctuated", "Pair"} -> VisitAll(Fields(n))
      [] OTHER ->
            <<Event(Hook(n), FALSE, n)>> \o VisitAll(VisitOrder(n))
            \o <<Event(Hook(n), TRUE, n)>>

VisitAll(s) == IF s = <<>> THEN <<>> ELSE Visit(Head(s)) \o VisitAll(Tail(s))

\* The node with its fields replaced by those of s, in declaration order.
WithFields(n, s) ==
    CASE n.tag = "Array" -> Array(s[1], s[2])
      [] n.tag = "Basic" -> Basic(s[1])
      [] n.tag = "Callback" -> Callback(s[1], s[2].pairs, s[3], s[4])
      [] n.tag = "Generic" -> Generic(s[1], s[2], s[3].pairs)
      [] n.tag = "Intersection" -> Intersection(s[1], s[2], s[3])
      [] n.tag = "Module" -> Module(s[1], s[2], s[3])
      [] n.tag = "Optional" -> Optional(s[1], s[2])
      [] n.tag = "Table" -> Table(s[1], s[2].pairs)
      [] n.tag = "Typeof" -> Typeof(s[1], s[2], s[3])
      [] n.tag = "Tuple" -> Tuple(s[1], s[2].pairs)
      [] n.tag = "Union" -> Union(s[1], s[2], s[3])
      [] n.tag = "Variadic" -> Variadic(s[1], s[2])
      [] n.tag = "IndexedBasic" -> IndexedBasic(s[1])
      [] n.tag = "IndexedGeneric" -> IndexedGeneric(s[1], s[2], s[3].pairs)
      [] n.tag = "TypeField" -> TypeField(s[1], s[2], s[3])
      [] n.tag = "Name" -> Name(s[1])
      [] n.tag = "IndexSignature" -> IndexSignature(s[1], s[2])
      [] n.tag = "TypeAssertion" -> TypeAssertion(s[1], s[2])
      [] n.tag = "TypeDeclaration" -> TypeDeclaration(s[1], s[2], s[3], s[4], s[5])
      [] n.tag = "GenericDeclaration" -> GenericDeclaration(s[1], s[2].pairs)
      [] n.tag = "TypeSpecifier" -> TypeSpecifier(s[1], s[2])
      [] n.tag = "ExportedTypeDeclaration" -> ExportedTypeDeclaration(s[1], s[2])
      [] n.tag = "CompoundAssignment" -> CompoundAssignment(s[1], s[2], s[3])
      [] n.tag = "CompoundOp" -> CompoundOp(n.variant, s[1])
      [] n.tag = "Var" -> Var(s[1])
      [] n.tag = "Expression" -> Expression(s[1])
      [] n.tag = "ContainedSpan" -> ContainedSpan(s[1], s[2])
      [] n.tag = "Punctuated" -> Punctuated(s)
      [] n.tag = "Pair" -> Pair(s[1], s[2])
      [] n.tag \in {"TokenReference", "None"} -> n

\* A mutating visitor of the model overrides one hook, which returns the
\* visitor's replacement; every other hook returns the node it is given.
VisitorMut(hook, end, replacement) ==
    [tag |-> "VisitorMut", hook |-> hook, end |-> end, replacement |-> replacement]

\* visitor.hook(n): the node the visitor returns.
Call(visitor, hook, end, n) ==
    IF visitor.hook = hook /\ visitor.end = end THEN visitor.replacement ELSE n

\* The node whose fields are walked: the one the visitor's hook returned.
Entered(n, visitor) == Call(visitor, Hook(n), FALSE, n)

RECURSIVE visit_mut(_, _)
RECURSIVE VisitMutTrace(_, _)
\* node.visit_mut(visitor): the node that takes the place of n.
visit_mut(n, visitor) ==
    CASE n.tag \in {"TokenReference", "None"} -> n
      [] n.tag \in {"ContainedSpan", "Punctuated", "Pair"} ->
            WithFields(n, [i \in DOMAIN Fields(n) |-> visit_mut(Fields(n)[i], visitor)])
      [] OTHER ->
            Call(visitor, Hook(n), TRUE,
                 WithFields(Entered(n, visitor),
                            [i \in DOMAIN Fields(Entered(n, visitor)) |->
                                visit_mut(Fields(Entered(n, visitor))[i], visitor)]))

RECURSIVE VisitMutTraceAll(_, _)
\* node.visit_mut(visitor): the calls of the visitor's hooks, in order, each
\* with the node it is given.
VisitMutTrace(n, visitor) ==
    CASE n.tag = "TokenReference" -> VisitTokenReference(n)
      [] n.tag = "None" -> <<>>
      [] n.tag \in {"ContainedSpan", "Punctuated", "Pair"} ->
            VisitMutTraceAll(Fields(n), visitor)
      [] OTHER ->
            <<Event(Hook(n), FALSE, n)>>
            \o VisitMutTraceAll(VisitOrder(Entered(n, visitor)), visitor)
            \o <<Event(Hook(n), TRUE,
                       WithFields(Entered(n, visitor),
                                  [i \in DOMAIN Fields(Entered(n, visitor)) |->
                                      visit_mut(Fields(Entered(n, visitor))[i], visitor)]))>>

VisitMutTraceAll(s, visitor) ==
    IF s = <<>> THEN <<>>
    ELSE VisitMutTrace(Head(s), visitor) \o VisitMutTraceAll(Tail(s), visitor)

(***************************************************************************)
(* More operations of the client: write a Module type as a literal, walk   *)
(* the node it holds with a visitor, rewrite it with a mutating visitor.   *)
(***************************************************************************)
NumberType == parse("TypeInfo", <<"n", "u", "m", "b", "e", "r">>)

\* What the client may try to store in the type_info field of a Module.
ModuleSlotPool ==
    {IndexedBasic(IdentifierToken(<<>>, <<"T">>, <<>>)),
     parse("TypeInfo", <<"m", ".", "F", "<", "a", "?", ">">>).type_info,
     NumberType,
     parse("TypeInfo", <<"s", "t", "r", "i", "n", "g", "?">>),
     parse("TypeInfo", <<"m", "o", "d", "u", "l", "e", ".", "F", "o", "o">>)}

\* The client's visitors: one that rewrites nothing, and ones that replace a
\* node before its fields are walked (end = FALSE) or after (end = TRUE).
Visitors ==
    {VisitorMut("none", FALSE, None),
     VisitorMut("visit_type_declaration", FALSE,
                parse("TypeDeclaration", <<"t", "y", "p", "e", " ", "F", "o", "o", "<", "T", ",", " ", "U", ">", " ", "=", " ", "T">>)),
     VisitorMut("visit_type_declaration", TRUE,
                parse("TypeDeclaration", <<"t", "y", "p", "e", " ", "M", "e", "t", "e", "r", "s", " ", "=", " ", "n", "u", "m", "b", "e", "r">>)),
     VisitorMut("visit_generic_declaration", FALSE,
                parse("GenericDeclaration", <<"<", "T", ",", " ", "U", ">">>)),
     VisitorMut("visit_generic_declaration", TRUE,
                parse("GenericDeclaration", <<"<", ">">>)),
     VisitorMut("visit_type_info", FALSE, NumberType),
     VisitorMut("visit_type_info", TRUE, NumberType),
     VisitorMut("visit_indexed_type_info", TRUE,
                IndexedBasic(IdentifierToken(<<>>, <<"T">>, <<>>)))}

\* TypeInfo::Module { module, punctuation, type_info }: the literal is
\* accepted when the value of type_info is an IndexedTypeInfo.
NewModule ==
    \E m \in TokenPool, t \in ModuleSlotPool :
        /\ IsIndexedTypeInfo(t)
        /\ Construct("TypeInfo::Module", Module(m, symbol(<<".">>), t), <<m, t>>)

\* node.visit(&mut visitor) with a visitor that records the calls.
VisitNode ==
    /\ IsNode(node)
    /\ op' = "visit"
    /\ trace' = Visit(node)
    /\ UNCHANGED <<node, prev, arg, src, steps>>

\* node = node.visit_mut(&mut visitor).
VisitMutNode ==
    /\ IsNode(node)
    /\ steps < MaxOps
    /\ \E visitor \in Visitors :
          /\ node' = visit_mut(node, visitor)
          /\ trace' = VisitMutTrace(node, visitor)
          /\ arg' = <<visitor>>
    /\ prev' = node
    /\ op' = "visit_mut"
    /\ steps' = steps + 1
    /\ UNCHANGED src

(***************************************************************************)
(* Claims.                                                                 *)
(***************************************************************************)
\* The argument of a call of one argument (a Punctuated is recorded as a
\* node of its own).
Arg == IF arg[1].tag = "Punctuated" THEN arg[1].pairs ELSE arg[1]

BuilderOps ==
    {"TypeField::with_key",
     "TypeField::with_colon_token",
     "TypeField::with_value",
     "TypeAssertion::with_assertion_op",
     "TypeAssertion::with_cast_to",
     "TypeDeclaration::with_type_token",
     "TypeDeclaration::with_type_name",
     "TypeDeclaration::with_generics",
     "TypeDeclaration::with_equal_token",
     "TypeDeclaration::with_type_definition",
     "GenericDeclaration::with_arrows",
     "GenericDeclaration::with_generics",
     "TypeSpecifier::with_punctuation",
     "TypeSpecifier::with_type_info",
     "ExportedTypeDeclaration::with_export_token",
     "ExportedTypeDeclaration::with_type_declaration",
     "CompoundAssignment::with_lhs",
     "CompoundAssignment::with_compound_operator",
     "CompoundAssignment::with_rhs"}

\* The accessor a builder is paired with.
Paired(o) ==
    CASE o = "TypeField::with_key" -> "TypeField::key"
      [] o = "TypeField::with_colon_token" -> "TypeField::colon_token"
      [] o = "TypeField::with_value" -> "TypeField::value"
      [] o = "TypeAssertion::with_assertion_op" -> "TypeAssertion::assertion_op"
      [] o = "TypeAssertion::with_cast_to" -> "TypeAssertion::cast_to"
      [] o = "TypeDeclaration::with_type_token" -> "TypeDeclaration::type_token"
      [] o = "TypeDeclaration::with_type_name" -> "TypeDeclaration::type_name"
      [] o = "TypeDeclaration::with_generics" -> "TypeDeclaration::generics"
      [] o = "TypeDeclaration::with_equal_token" -> "TypeDeclaration::equal_token"
      [] o = "TypeDeclaration::with_type_definition" -> "TypeDeclaration::type_definition"
      [] o = "GenericDeclaration::with_arrows" -> "GenericDeclaration::arrows"
      [] o = "GenericDeclaration::with_generics" -> "GenericDeclaration::generics"
      [] o = "TypeSpecifier::with_punctuation" -> "TypeSpecifier::punctuation"
      [] o = "TypeSpecifier::with_type_info" -> "TypeSpecifier::type_info"
      [] o = "ExportedTypeDeclaration::with_export_token" -> "ExportedTypeDeclaration::export_token"
      [] o = "ExportedTypeDeclaration::with_type_declaration" -> "ExportedTypeDeclaration::type_declaration"
      [] o = "CompoundAssignment::with_lhs" -> "CompoundAssignment::lhs"
      [] o = "CompoundAssignment::with_compound_operator" -> "CompoundAssignment::compound_operator"
      [] o = "CompoundAssignment::with_rhs" -> "CompoundAssignment::rhs"

Accessor(a, n) ==
    CASE a = "TypeField::key" -> TypeField_key(n)
      [] a = "TypeField::colon_token" -> TypeField_colon_token(n)
      [] a = "TypeField::value" -> TypeField_value(n)
      [] a = "TypeAssertion::assertion_op" -> TypeAssertion_assertion_op(n)
      [] a = "TypeAssertion::cast_to" -> TypeAssertion_cast_to(n)
      [] a = "TypeDeclaration::type_token" -> TypeDeclaration_type_token(n)
      [] a = "TypeDeclaration::type_name" -> TypeDeclaration_type_name(n)
      [] a = "TypeDeclaration::generics" -> TypeDeclaration_generics(n)
      [] a = "TypeDeclaration::equal_token" -> TypeDeclaration_equal_token(n)
      [] a = "TypeDeclaration::type_definition" -> TypeDeclaration_type_definition(n)
      [] a = "GenericDeclaration::arrows" -> GenericDeclaration_arrows(n)
      [] a = "GenericDeclaration::generics" -> GenericDeclaration_generics(n)
      [] a = "TypeSpecifier::punctuation" -> TypeSpecifier_punctuation(n)
      [] a = "TypeSpecifier::type_info" -> TypeSpecifier_type_info(n)
      [] a = "ExportedTypeDeclaration::export_token" -> ExportedTypeDeclaration_export_token(n)
      [] a = "ExportedTypeDeclaration::type_declaration" -> ExportedTypeDeclaration_type_declaration(n)
      [] a = "CompoundAssignment::lhs" -> CompoundAssignment_lhs(n)
      [] a = "CompoundAssignment::compound_operator" -> CompoundAssignment_compound_operator(n)
      [] a = "CompoundAssignment::rhs" -> CompoundAssignment_rhs(n)

\* The accessors of a struct, in the order its fields are rendered.
AccessorsOf(tag) ==
    CASE tag = "TypeField" -> <<"TypeField::key", "TypeField::colon_token", "TypeField::value">>
      [] tag = "TypeAssertion" -> <<"TypeAssertion::assertion_op", "TypeAssertion::cast_to">>
      [] tag = "TypeDeclaration" -> <<"TypeDeclaration::type_token", "TypeDeclaration::type_name", "TypeDeclaration::generics", "TypeDeclaration::equal_token", "TypeDeclaration::type_definition">>
      [] tag = "GenericDeclaration" -> <<"GenericDeclaration::arrows", "GenericDeclaration::generics">>
      [] tag = "TypeSpecifier" -> <<"TypeSpecifier::punctuation", "TypeSpecifier::type_info">>
      [] tag = "ExportedTypeDeclaration" -> <<"ExportedTypeDeclaration::export_token", "ExportedTypeDeclaration::type_declaration">>
      [] tag = "CompoundAssignment" -> <<"CompoundAssignment::lhs", "CompoundAssignment::compound_operator", "CompoundAssignment::rhs">>

\* C1: builder locality.  After n.with_f(v), the accessor paired with f
\* returns v and every other accessor returns what it returned on n,
\* trivia included; the node is still of the same struct.
C1_BuilderLocality ==
    op \in BuilderOps =>
        /\ node.tag = prev.tag
        /\ Accessor(Paired(op), node) = Arg
        /\ \A a \in Range(AccessorsOf(node.tag)) \ {Paired(op)} :
              Accessor(a, node) = Accessor(a, prev)

\* A builder whose name differs from its field has replaced a value by another one.
C1_Witness ==
    /\ op = "TypeDeclaration::with_type_name"
    /\ steps = 2
    /\ Arg # TypeDeclaration_type_name(prev)
    /\ Arg # TypeDeclaration_type_token(prev)

\* C2: the round-trip law.  The tree parsed from a source text, not
\* modified afterwards, renders to that text byte for byte.
C2_RoundTrip == op = "parse" => (IsNode(node) /\ Display(node) = src)

\* The callback of the spec's scenario has been parsed.
C2_Witness ==
    /\ op = "parse"
    /\ node.tag = "Callback"
    /\ Len(node.arguments) = 2
    /\ Len(src) = 27

Displayable(m) == m.tag \notin {"ContainedSpan", "Punctuated", "Pair", "None"}

\* C3: rendering is the concatenation, in source order, of the node's
\* tokens and children, a delimiter pair giving its open token before and
\* its close token after what it encloses; absent generics render as
\* nothing; every leaf token is rendered once (the rendering is as long as
\* the leaf tokens together).
C3_RenderOrder ==
    IsNode(node) =>
        \A m \in {x \in Subnodes(node) : Displayable(x)} :
            /\ Len(Display(m)) = TokenBytes(m)
            /\ m.tag = "Callback" =>
                  Display(m) = RenderToken(m.parentheses.tokens[1])
                               \o DisplayPunctuated(m.arguments)
                               \o RenderToken(m.parentheses.tokens[2])
                               \o RenderToken(m.arrow) \o Display(m.return_type)
            /\ m.tag = "Generic" =>
                  Display(m) = RenderToken(m.base) \o RenderToken(m.arrows.tokens[1])
                               \o DisplayPunctuated(m.generics)
                               \o RenderToken(m.arrows.tokens[2])
            /\ m.tag = "Typeof" =>
                  Display(m) = RenderToken(m.typeof_token)
                               \o RenderToken(m.parentheses.tokens[1])
                               \o Display(m.inner)
                               \o RenderToken(m.parentheses.tokens[2])
            /\ m.tag = "TypeDeclaration" =>
                  Display(m) = RenderToken(m.type_token) \o RenderToken(m.base)
                               \o (IF IsNone(m.generics) THEN <<>> ELSE Display(m.generics))
                               \o RenderToken(m.equal_token) \o Display(m.declare_as)
            /\ m.tag = "CompoundAssignment" =>
                  Display(m) = Display(m.lhs) \o Display(m.compound_operator)
                               \o Display(m.rhs)

\* A declaration whose generics a builder has put in place is rendered.
C3_Witness ==
    /\ node.tag = "TypeDeclaration"
    /\ op = "TypeDeclaration::with_generics"
    /\ ~IsNone(node.generics)
    /\ IsNone(prev.generics)
    /\ Len(node.generics.generics) = 2

\* What the value of a field contributes to the rendering.
ValueDisplay(a, v) ==
    CASE a = "GenericDeclaration::generics" -> DisplayPunctuated(v)
      [] a = "GenericDeclaration::arrows" ->
            RenderToken(v.tokens[1]) \o RenderToken(v.tokens[2])
      [] OTHER -> Display(v)

RECURSIVE DisplayOf(_, _)
\* The renderings of the named fields of n, one after the other.
DisplayOf(names, n) ==
    IF names = <<>> THEN <<>>
    ELSE ValueDisplay(Head(names), Accessor(Head(names), n)) \o DisplayOf(Tail(names), n)

IndexOf(a, names) == CHOOSE i \in DOMAIN names : names[i] = a

NamesBefore(a, names) == SubSeq(names, 1, IndexOf(a, names) - 1)

NamesAfter(a, names) == SubSeq(names, IndexOf(a, names) + 1, Len(names))

\* C4, as amended: render locality under replacement.  For a field that is
\* not a delimiter pair, render(n.with_f(v)) is render(n) with the
\* contiguous segment of the old value of f replaced by render(v), the
\* bytes before and after unchanged (with_generics(None) removes exactly
\* the generics).  GenericDeclaration's with_arrows replaces the two
\* segments of the open and the close token and leaves the generics
\* between them unchanged, and its with_generics replaces what is between.
C4_RenderLocality ==
    op \in BuilderOps =>
        IF node.tag = "GenericDeclaration"
        THEN /\ Display(prev) = RenderToken(prev.arrows.tokens[1])
                                \o DisplayPunctuated(prev.generics)
                                \o RenderToken(prev.arrows.tokens[2])
             /\ op = "GenericDeclaration::with_arrows" =>
                   Display(node) = RenderToken(Arg.tokens[1])
                                   \o DisplayPunctuated(prev.generics)
                                   \o RenderToken(Arg.tokens[2])
             /\ op = "GenericDeclaration::with_generics" =>
                   Display(node) = RenderToken(prev.arrows.tokens[1])
                                   \o DisplayPunctuated(Arg)
                                   \o RenderToken(prev.arrows.tokens[2])
        ELSE /\ Display(prev) =
                   DisplayOf(NamesBefore(Paired(op), AccessorsOf(prev.tag)), prev)
                   \o ValueDisplay(Paired(op), Accessor(Paired(op), prev))
                   \o DisplayOf(NamesAfter(Paired(op), AccessorsOf(prev.tag)), prev)
             /\ Display(node) =
                   DisplayOf(NamesBefore(Paired(op), AccessorsOf(prev.tag)), prev)
                   \o ValueDisplay(Paired(op), Arg)
                   \o DisplayOf(NamesAfter(Paired(op), AccessorsOf(prev.tag)), prev)

\* with_generics(None) has removed the generics of a declaration that had some.
C4_Witness ==
    /\ op = "TypeDeclaration::with_generics"
    /\ IsNone(Arg)
    /\ ~IsNone(prev.generics)
    /\ Len(Display(node)) < Len(Display(prev))

ReplacedAt(old, new, whole, i) ==
    /\ i + Len(old) <= Len(whole)
    /\ SubSeq(whole, i + 1, i + Len(old)) = old
    /\ Display(node) = SubSeq(whole, 1, i) \o new \o SubSeq(whole, i + Len(old) + 1, Len(whole))

\* C4, as claimed: for every field, the old value's rendering is one
\* contiguous segment of render(n), and render(n.with_f(v)) is render(n)
\* with that segment replaced by render(v).
C4_ContiguousSegment ==
    op \in BuilderOps =>
        \E i \in 0..Len(Display(prev)) :
            ReplacedAt(ValueDisplay(Paired(op), Accessor(Paired(op), prev)),
                       ValueDisplay(Paired(op), Arg), Display(prev), i)

\* The Union of "string | number" as the type of the specifier
\* ": string | number": the same tokens, two bytes further into their source.
ShiftedUnion ==
    parse("TypeSpecifier", <<":", " ", "s", "t", "r", "i", "n", "g", " ", "|", " ",
                             "n", "u", "m", "b", "e", "r">>).type_info

\* The trees a node is compared with.
Comparands ==
    Parsed("TypeInfo") \cup Parsed("TypeSpecifier") \cup {prev}
    \cup {t.type_info : t \in Parsed("TypeSpecifier")} \cup {ShiftedUnion}

\* The fields of a node that hold a list of values.
IsList(n, f) ==
    \/ f \in {"arguments", "fields", "types", "pairs", "tokens"}
    \/ f = "generics" /\ n.tag # "TypeDeclaration"

RECURSIVE TextAndTrivia(_)
\* A tree with each token reduced to its text and its leading and trailing
\* trivia, the variant or struct and every field kept as they are.
TextAndTrivia(n) ==
    IF n.tag = "TokenReference"
    THEN [tag |-> "TokenReference", leading |-> n.leading, text |-> n.text,
          trailing |-> n.trailing]
    ELSE [f \in DOMAIN n |->
            IF f \in {"tag", "variant"} THEN n[f]
            ELSE IF IsList(n, f) THEN [i \in DOMAIN n[f] |-> TextAndTrivia(n[f][i])]
            ELSE TextAndTrivia(n[f])]

\* C5: structural equality is exact and trivia-sensitive.  Two nodes
\* compare equal if and only if they are the same variant or struct and
\* every corresponding field, recursively down to each token's text and
\* leading and trailing trivia, is equal.  Hence the Union tree of
\* "string | number" is unequal to that of "string|number", and two nodes
\* that compare equal render to identical text.
C5_StructuralEquality ==
    IsNode(node) =>
        /\ eq(node, node)
        /\ \A o \in Comparands :
              /\ eq(node, o) <=> TextAndTrivia(node) = TextAndTrivia(o)
              /\ eq(node, o) => Display(node) = Display(o)
        /\ src = <<"s", "t", "r", "i", "n", "g", " ", "|", " ", "n", "u", "m", "b", "e", "r">> =>
              ~eq(node, parse("TypeInfo", <<"s", "t", "r", "i", "n", "g", "|", "n", "u", "m", "b", "e", "r">>))

\* The Union tree of "string | number" is held: it is unequal to the tree
\* of "string|number", and equal to the Union of the same text and trivia
\* that was read two bytes further into another source.
C5_Witness ==
    /\ op = "parse"
    /\ node.tag = "Union"
    /\ src = <<"s", "t", "r", "i", "n", "g", " ", "|", " ", "n", "u", "m", "b", "e", "r">>
    /\ ~eq(node, parse("TypeInfo", <<"s", "t", "r", "i", "n", "g", "|", "n", "u", "m", "b", "e", "r">>))
    /\ ShiftedUnion \in Comparands
    /\ node # ShiftedUnion
    /\ eq(node, ShiftedUnion)

\* C6: restriction soundness.  In every tree the client can hold, however
\* it was made (parsed, written as a literal, built, rewritten by a
\* mutating walk), the type_info of every Module is an IndexedTypeInfo of
\* variant Basic or Generic, never another TypeInfo; the generics of an
\* IndexedTypeInfo::Generic are not restricted.
C6_RestrictionSoundness ==
    IsNode(node) =>
        \A m \in Subnodes(node) :
            m.tag = "Module" =>
                /\ m.type_info.tag \in {"IndexedBasic", "IndexedGeneric"}
                /\ m.type_info.tag \notin TypeInfoTags

\* A Module written as a literal holds an IndexedTypeInfo::Generic whose
\* generics hold an Optional.
C6_Witness ==
    /\ op = "TypeInfo::Module"
    /\ node.tag = "Module"
    /\ node.type_info.tag = "IndexedGeneric"
    /\ node.type_info.generics[1].value.tag = "Optional"

\* The with-operations of the node layer, applied to the node the client holds.
WithOps ==
    \/ WithKey \/ WithColonToken \/ WithValue
    \/ WithAssertionOp \/ WithCastTo
    \/ WithTypeToken \/ WithTypeName \/ WithGenericsOption \/ WithEqualToken
    \/ WithTypeDefinition
    \/ WithArrows \/ WithGenericNames
    \/ WithPunctuation \/ WithTypeInfo
    \/ WithExportToken \/ WithTypeDeclaration
    \/ WithLhs \/ WithCompoundOperator \/ WithRhs

\* C7: TypeInfo and IndexedTypeInfo expose with-operations.  Whenever the
\* client holds a type expression, some with-operation applies to it and
\* returns a node of the same variant, leaving the receiver as it was.
C7_TypeInfoWithOps ==
    (node.tag \in TypeInfoTags \cup IndexedTypeInfoTags /\ steps < MaxOps) =>
        ENABLED (WithOps /\ node'.tag = node.tag /\ prev' = node)

\* The text of a name token without trivia.
Spelled(t, text) == IsTokenReference(t) /\ t.text = text /\ t.leading = <<>> /\ t.trailing = <<>>

\* C8: the constructors store their arguments unchanged and fill the other
\* fields with canonical tokens.  GenericDeclaration::new() has the arrows
\* `<` and `>` and no generics, renders "<>" and, given the names T and U,
\* "<T, U>"; TypeField::new(k, v) renders k ": " v; TypeSpecifier::new(t)
\* renders ": " t; TypeAssertion::new(t) renders "::" t;
\* TypeDeclaration::new(name, def) has no generics and renders
\* "type " name " = " def; ExportedTypeDeclaration::new(d) renders "export " d.
C8_CanonicalConstructors ==
    /\ op = "GenericDeclaration::new" =>
          /\ IsNode(node)
          /\ Spelled(node.arrows.tokens[1], <<"<">>)
          /\ Spelled(node.arrows.tokens[2], <<">">>)
          /\ node.generics = <<>>
          /\ Display(node) = <<"<", ">">>
    /\ (op = "GenericDeclaration::with_generics" /\ prev = GenericDeclaration_new
        /\ Len(Arg) = 2 /\ Spelled(Arg[1].value, <<"T">>) /\ Spelled(Arg[2].value, <<"U">>)) =>
          Display(node) = <<"<", "T", ",", " ", "U", ">">>
    /\ op = "TypeField::new" =>
          /\ IsNode(node)
          /\ node.key = arg[1]
          /\ node.value = arg[2]
          /\ Display(node) = Display(arg[1]) \o <<":", " ">> \o Display(arg[2])
    /\ op = "TypeSpecifier::new" =>
          /\ IsNode(node)
          /\ node.type_info = Arg
          /\ Display(node) = <<":", " ">> \o Display(Arg)
    /\ op = "TypeAssertion::new" =>
          /\ IsNode(node)
          /\ node.cast_to = Arg
          /\ Display(node) = <<":", ":">> \o Display(Arg)
    /\ op = "TypeDeclaration::new" =>
          /\ IsNode(node)
          /\ node.base = arg[1]
          /\ node.declare_as = arg[2]
          /\ IsNone(node.generics)
          /\ Display(node) = <<"t", "y", "p", "e", " ">> \o Display(arg[1])
                             \o <<" ", "=", " ">> \o Display(arg[2])
    /\ op = "ExportedTypeDeclaration::new" =>
          /\ IsNode(node)
          /\ node.type_declaration = Arg
          /\ Display(node) = <<"e", "x", "p", "o", "r", "t", " ">> \o Display(Arg)

\* The leaf tokens of a node.
LeafTokens(m) == {t \in Subnodes(m) : t.tag = "TokenReference"}

Min(S) == CHOOSE x \in S : \A y \in S : x <= y

Max(S) == CHOOSE x \in S : \A y \in S : y <= x

\* C9: span computation.  For every node of a parsed tree, the start
\* position is the start of its first leaf token and the end position is
\* the end of its last leaf token: the span is the minimum and the maximum
\* over the spans of its children and encloses each of them, so that the
\* span of a delimiter-wrapped node ends at the end of the closing token.
C9_SpanEnclosesChildren ==
    (op = "parse" /\ IsNode(node)) =>
        \A m \in {x \in Subnodes(node) : Displayable(x)} :
            /\ start_position(m) = Some(Min({t.start : t \in LeafTokens(m)}))
            /\ end_position(m) = Some(Max({t.end : t \in LeafTokens(m)}))

RECURSIVE TokenText(_)
\* The text of the tokens the walk has visited, in order.
TokenText(tr) ==
    IF tr = <<>> THEN <<>>
    ELSE (IF Head(tr).hook = "visit_token" THEN Head(tr).node.text ELSE <<>>)
         \o TokenText(Tail(tr))

IsEnter(e) == e.hook # "visit_token" /\ ~e.end

IsExit(e) == e.hook # "visit_token" /\ e.end

\* The hooks called, without the nodes they were called with.
Shape(tr) == [i \in DOMAIN tr |-> <<tr[i].hook, tr[i].end>>]

RECURSIVE Nested(_, _)
\* Every end hook closes the hook that was opened last and not closed yet.
Nested(tr, stack) ==
    IF tr = <<>> THEN stack = <<>>
    ELSE IF IsEnter(Head(tr)) THEN Nested(Tail(tr), <<Head(tr).hook>> \o stack)
    ELSE IF IsExit(Head(tr))
    THEN stack # <<>> /\ Head(stack) = Head(tr).hook /\ Nested(Tail(tr), Tail(stack))
    ELSE Nested(Tail(tr), stack)

Hooked(m) == m.tag \notin {"TokenReference", "None", "ContainedSpan", "Punctuated", "Pair"}

RECURSIVE CountHooked(_)
RECURSIVE CountHookedAll(_)
\* The number of nodes of a tree that have a hook.
CountHooked(n) == (IF Hooked(n) THEN 1 ELSE 0) + CountHookedAll(Fields(n))

CountHookedAll(s) ==
    IF s = <<>> THEN 0 ELSE CountHooked(Head(s)) + CountHookedAll(Tail(s))

\* tr holds part as a contiguous run of calls.
Holds(tr, part) ==
    \E i \in 0..(Len(tr) - Len(part)) : SubSeq(tr, i + 1, i + Len(part)) = part

\* C10: traversal order.  The read-only walk calls the hook of each node
\* once and visits each leaf token once, depth-first and in the order in
\* which the tokens are rendered: for a GenericDeclaration the `<`, each
\* name, the `>`; for a TypeDeclaration the type token, the name, the
\* generics if present, the `=`, the definition.  The mutating walk has the
\* same order and shape; after a replacement at the hook of a node the
\* fields of the replacement are walked, and the end hook of a node is
\* called after all of its fields have been walked.
C10_TraversalOrder ==
    /\ op = "visit" =>
          /\ TokenText(trace) = Display(node)
          /\ Len(SelectSeq(trace, IsEnter)) = CountHooked(node)
          /\ Len(SelectSeq(trace, IsExit)) = CountHooked(node)
          /\ Nested(trace, <<>>)
          /\ \A m \in {x \in Subnodes(node) : Hooked(x)} :
                /\ Holds(trace, Visit(m))
                /\ Head(Visit(m)) = Event(Hook(m), FALSE, m)
                /\ Visit(m)[Len(Visit(m))] = Event(Hook(m), TRUE, m)
                /\ m.tag = "GenericDeclaration" =>
                      Visit(m) = <<Event(Hook(m), FALSE, m)>>
                                 \o Visit(m.arrows.tokens[1])
                                 \o Visit(Punctuated(m.generics))
                                 \o Visit(m.arrows.tokens[2])
                                 \o <<Event(Hook(m), TRUE, m)>>
                /\ m.tag = "TypeDeclaration" =>
                      Visit(m) = <<Event(Hook(m), FALSE, m)>>
                                 \o Visit(m.type_token) \o Visit(m.base)
                                 \o Visit(m.generics) \o Visit(m.equal_token)
                                 \o Visit(m.declare_as)
                                 \o <<Event(Hook(m), TRUE, m)>>
    /\ op = "visit_mut" =>
          /\ Nested(trace, <<>>)
          /\ Head(trace) = Event(Hook(prev), FALSE, prev)
          /\ trace[Len(trace)].end
          /\ node = Call(Arg, Hook(prev), TRUE, trace[Len(trace)].node)
          /\ Arg.hook = "none" => (node = prev /\ trace = Visit(prev))
          /\ ~Arg.end =>
                /\ TokenText(trace) = Display(node)
                /\ \A i \in DOMAIN trace :
                      (trace[i].hook = Arg.hook /\ ~trace[i].end) =>
                          /\ i + Len(Visit(Arg.replacement)) - 1 <= Len(trace)
                          /\ SubSeq(trace, i + 1, i + Len(Visit(Arg.replacement)) - 1)
                                = Tail(Visit(Arg.replacement))
          /\ Arg.end =>
                /\ Shape(trace) = Shape(Visit(prev))
                /\ TokenText(trace) = Display(prev)

\* A mutating walk of an exported declaration has replaced the declaration
\* at its hook and walked the generics of the replacement.
C10_Witness ==
    /\ op = "visit_mut"
    /\ Arg.hook = "visit_type_declaration"
    /\ ~Arg.end
    /\ prev.tag = "ExportedTypeDeclaration"
    /\ node.type_declaration = Arg.replacement
    /\ node # prev
    /\ Holds(trace, Visit(Arg.replacement.generics))

ConstructorOps ==
    {"TypeField::new", "TypeAssertion::new", "TypeDeclaration::new",
     "GenericDeclaration::new", "TypeSpecifier::new",
     "ExportedTypeDeclaration::new", "CompoundAssignment::new"}

\* The struct a constructor builds.
Constructed(o) ==
    CASE o = "TypeField::new" -> "TypeField"
      [] o = "TypeAssertion::new" -> "TypeAssertion"
      [] o = "TypeDeclaration::new" -> "TypeDeclaration"
      [] o = "GenericDeclaration::new" -> "GenericDeclaration"
      [] o = "TypeSpecifier::new" -> "TypeSpecifier"
      [] o = "ExportedTypeDeclaration::new" -> "ExportedTypeDeclaration"
      [] o = "CompoundAssignment::new" -> "CompoundAssignment"

\* The fixed literals a constructor synthesizes a token from.
Literals(o) ==
    CASE o = "TypeField::new" -> {<<":", " ">>}
      [] o = "TypeAssertion::new" -> {<<":", ":">>}
      [] o = "TypeDeclaration::new" -> {<<"t", "y", "p", "e", " ">>, <<" ", "=", " ">>}
      [] o = "GenericDeclaration::new" -> {<<"<">>, <<">">>}
      [] o = "TypeSpecifier::new" -> {<<":", " ">>}
      [] o = "ExportedTypeDeclaration::new" -> {}
      [] o = "CompoundAssignment::new" -> {}

\* C11: node construction has no recoverable error outcome.  A constructor
\* never returns an error value and never a partially built node: its
\* outcome is a node of its struct with every field in place, or, when the
\* synthesis of a token from one of its fixed literals fails (the only
\* failure path), a panic.
C11_NoRecoverableError ==
    op \in ConstructorOps =>
        /\ ~IsErr(node)
        /\ IsPanic(node) <=> \E l \in Literals(op) : IsErr(symbol(l))
        /\ ~IsPanic(node) =>
              /\ node.tag = Constructed(op)
              /\ \A f \in Range(Fields(node)) : ~IsErr(f) /\ ~IsPanic(f)
              /\ \A m \in Subnodes(node) : ~IsErr(m) /\ ~IsPanic(m)

\* The failure path has been taken: the literal "type " is not a symbol and
\* the constructor has panicked.
C11_Witness ==
    /\ op = "TypeDeclaration::new"
    /\ IsErr(symbol(<<"t", "y", "p", "e", " ">>))
    /\ IsPanic(node)

StructTags ==
    {"TypeField", "TypeAssertion", "TypeDeclaration", "GenericDeclaration",
     "TypeSpecifier", "ExportedTypeDeclaration", "CompoundAssignment"}

\* The builders of a struct.
BuildersOf(tag) == {o \in BuilderOps : Paired(o) \in Range(AccessorsOf(tag))}

\* n.with_f(v), by the name of the builder.
Builder(o, n, v) ==
    CASE o = "TypeField::with_key" -> TypeField_with_key(n, v)
      [] o = "TypeField::with_colon_token" -> TypeField_with_colon_token(n, v)
      [] o = "TypeField::with_value" -> TypeField_with_value(n, v)
      [] o = "TypeAssertion::with_assertion_op" -> TypeAssertion_with_assertion_op(n, v)
      [] o = "TypeAssertion::with_cast_to" -> TypeAssertion_with_cast_to(n, v)
      [] o = "TypeDeclaration::with_type_token" -> TypeDeclaration_with_type_token(n, v)
      [] o = "TypeDeclaration::with_type_name" -> TypeDeclaration_with_type_name(n, v)
      [] o = "TypeDeclaration::with_generics" -> TypeDeclaration_with_generics(n, v)
      [] o = "TypeDeclaration::with_equal_token" -> TypeDeclaration_with_equal_token(n, v)
      [] o = "TypeDeclaration::with_type_definition" -> TypeDeclaration_with_type_definition(n, v)
      [] o = "GenericDeclaration::with_arrows" -> GenericDeclaration_with_arrows(n, v)
      [] o = "GenericDeclaration::with_generics" -> GenericDeclaration_with_generics(n, v)
      [] o = "TypeSpecifier::with_punctuation" -> TypeSpecifier_with_punctuation(n, v)
      [] o = "TypeSpecifier::with_type_info" -> TypeSpecifier_with_type_info(n, v)
      [] o = "ExportedTypeDeclaration::with_export_token" -> ExportedTypeDeclaration_with_export_token(n, v)
      [] o = "ExportedTypeDeclaration::with_type_declaration" -> ExportedTypeDeclaration_with_type_declaration(n, v)
      [] o = "CompoundAssignment::with_lhs" -> CompoundAssignment_with_lhs(n, v)
      [] o = "CompoundAssignment::with_compound_operator" -> CompoundAssignment_with_compound_operator(n, v)
      [] o = "CompoundAssignment::with_rhs" -> CompoundAssignment_with_rhs(n, v)

\* The values the client hands to a builder.
ValuesOf(o) ==
    CASE o \in {"TypeField::with_colon_token", "TypeAssertion::with_assertion_op",
                "TypeDeclaration::with_type_token", "TypeDeclaration::with_type_name",
                "TypeDeclaration::with_equal_token", "TypeSpecifier::with_punctuation",
                "ExportedTypeDeclaration::with_export_token"} -> TokenPool
      [] o \in {"TypeField::with_value", "TypeAssertion::with_cast_to",
                "TypeDeclaration::with_type_definition",
                "TypeSpecifier::with_type_info"} -> TypeInfoPool
      [] o = "TypeField::with_key" -> TypeFieldKeyPool
      [] o = "TypeDeclaration::with_generics" -> GenericsPool
      [] o = "GenericDeclaration::with_arrows" -> ContainedSpanPool
      [] o = "GenericDeclaration::with_generics" -> NamesPool
      [] o = "ExportedTypeDeclaration::with_type_declaration" -> TypeDeclarationPool
      [] o = "CompoundAssignment::with_lhs" -> VarPool
      [] o = "CompoundAssignment::with_compound_operator" -> CompoundOpPool
      [] o = "CompoundAssignment::with_rhs" -> ExpressionPool

\* Structural equality of two field values (a list of pairs is compared as
\* the Punctuated it is).
SameValue(a, x, y) ==
    /\ x = y
    /\ IF a = "GenericDeclaration::generics" THEN eq(Punctuated(x), Punctuated(y))
       ELSE eq(x, y)

\* C12: after a sequence of builders applied to a node, each field holds the
\* value given by the most recent builder call for that field, or its
\* original value if no builder for that field was applied.  From every
\* node the client holds (itself parsed, constructed or built), for every
\* two further builder calls: the fields are as the last write of each
\* left them, builders on distinct fields commute, a repeated builder on
\* one field is last-write-wins, and n.with_f(n.f()) is equal to n.
C12_LastWriteWins ==
    node.tag \in StructTags =>
        /\ \A o1 \in BuildersOf(node.tag), o2 \in BuildersOf(node.tag) :
              \A v \in ValuesOf(o1), w \in ValuesOf(o2) :
                 /\ \A a \in Range(AccessorsOf(node.tag)) :
                       SameValue(a, Accessor(a, Builder(o2, Builder(o1, node, v), w)),
                                 IF a = Paired(o2) THEN w
                                 ELSE IF a = Paired(o1) THEN v
                                 ELSE Accessor(a, node))
                 /\ o1 # o2 =>
                       /\ eq(Builder(o2, Builder(o1, node, v), w),
                             Builder(o1, Builder(o2, node, w), v))
                       /\ Builder(o2, Builder(o1, node, v), w)
                          = Builder(o1, Builder(o2, node, w), v)
                 /\ o1 = o2 =>
                       /\ eq(Builder(o2, Builder(o1, node, v), w), Builder(o2, node, w))
                       /\ Builder(o2, Builder(o1, node, v), w) = Builder(o2, node, w)
        /\ \A o \in BuildersOf(node.tag) :
              /\ eq(Builder(o, node, Accessor(Paired(o), node)), node)
              /\ Builder(o, node, Accessor(Paired(o), node)) = node
        /\ op \in BuilderOps =>
              \A a \in Range(AccessorsOf(node.tag)) :
                 SameValue(a, Accessor(a, node),
                           IF a = Paired(op) THEN Arg ELSE Accessor(a, prev))

\* Two builders on distinct fields have been applied in sequence to a parsed
\* declaration: with_type_name, then with_type_definition.
C12_Witness ==
    /\ op = "TypeDeclaration::with_type_definition"
    /\ steps = 2
    /\ \E p \in Parsed("TypeDeclaration") :
          /\ prev.base # p.base
          /\ prev = TypeDeclaration_with_type_name(p, prev.base)
          /\ node.declare_as # p.declare_as
          /\ node.base = prev.base
          /\ node = TypeDeclaration_with_type_definition(prev, Arg)

Init ==
    /\ node = None
    /\ prev = None
    /\ op = "init"
    /\ arg = <<>>
    /\ src = <<>>
    /\ steps = 0
    /\ trace = <<>>

Next ==
    \/ Parse
    \/ NewTypeField
    \/ NewTypeAssertion
    \/ NewTypeDeclaration
    \/ NewGenericDeclaration
    \/ NewTypeSpecifier
    \/ NewExportedTypeDeclaration
    \/ NewCompoundAssignment
    \/ WithKey
    \/ WithColonToken
    \/ WithValue
    \/ WithAssertionOp
    \/ WithCastTo
    \/ WithTypeToken
    \/ WithTypeName
    \/ WithGenericsOption
    \/ WithEqualToken
    \/ WithTypeDefinition
    \/ WithArrows
    \/ WithGenericNames
    \/ WithPunctuation
    \/ WithTypeInfo
    \/ WithExportToken
    \/ WithTypeDeclaration
    \/ WithLhs
    \/ WithCompoundOperator
    \/ WithRhs
    \/ NewModule
    \/ VisitNode
    \/ VisitMutNode

Spec == Init /\ [][Next]_vars
====
